---- MODULE Spec2Model ----
(***************************************************************************)
(* Client-side orchestration layer of the RAG chat application:            *)
(*   - the auth store and the chat store (zustand, persisted to            *)
(*     localStorage under "rag-auth-storage" / "rag-chat-storage"),        *)
(*   - pollJobUntilComplete (lib/api),                                     *)
(*   - the useChat hook (sendMessage / retryMessage / cancelJob and the    *)
(*     background poll loops).                                             *)
(*   - documentApi.ingest (single and ranged uploads, lib/api) as called   *)
(*     by the FileUpload component.                                        *)
(*                                                                         *)
(* JavaScript null / undefined / "" / 0 are all tested by truthiness in    *)
(* the modelled code, so an absent string is "" and an absent number or id *)
(* is 0.  An optional record (a localStorage item) is a sequence of length *)
(* 0 or 1.                                                                 *)
(***************************************************************************)
EXTENDS Integers, Sequences, FiniteSets, TLC

VARIABLES
    now,                  \* Date.now(), in ms
    \* ---- auth store (useAuthStore) --------------------------------------
    isAuthenticated, user, token, expiresAt,
    authPc,               \* position inside login()/logout(): "idle" between handlers
    authArg,              \* the TokenResponse login() is running with
    authStorage,          \* localStorage["rag-auth-storage"]
    \* ---- chat store (useChatStore) --------------------------------------
    conversations, activeConversationId, pendingJobs, isSending, error,
    settings,
    chatStorage,          \* localStorage["rag-chat-storage"]
    nextId,               \* ids handed out by generateId() so far
    \* ---- useChat hook and the backend it talks to -----------------------
    pollingRef,           \* pollingRef.current
    abortControllersRef,  \* keys of abortControllersRef.current
    submits,              \* chatApi.sendMessage requests in flight
    loops,                \* jobId -> the pollForResponse call polling it
    nextJob,              \* job ids handed out by the backend so far
    \* ---- one stand-alone call of pollJobUntilComplete -------------------
    poll,
    \* ---- one call of documentApi.ingest --------------------------------
    upload

authVars  == <<isAuthenticated, user, token, expiresAt, authPc, authArg, authStorage>>
chatVars  == <<conversations, activeConversationId, pendingJobs, isSending, error,
               settings, chatStorage, nextId>>
hookVars  == <<pollingRef, abortControllersRef, submits, loops, nextJob>>
vars      == <<now, authVars, chatVars, hookVars, poll, upload>>

\* ------------------------------------------------------------------------
\* Bounds of the model
\* ------------------------------------------------------------------------
MaxClock   == 1      \* the store specification stops the clock after this many seconds
MaxIds     == 2      \* generateId() calls explored
MaxSeconds == 1      \* largest expires_in of a TokenResponse

MaxLatency   == 2       \* a status request takes 1..MaxLatency ms
MaxLateness  == 1       \* a timer fires 0..MaxLateness ms after it is due
MaxPollClock == 130000  \* the poll specification stops the clock here (ms)

MaxChatIds   == 3       \* generateId() calls explored by the hook specification
MaxJobs      == 2       \* jobs the backend accepts in the hook specification
MaxChatClock == 2       \* the hook specification stops the clock here (ms)

MsPerSecond == 1000  \* login(): Date.now() + response.expires_in * 1000

UserIds    == {"A", "B"}
TokenOf(u) == IF u = "A" THEN "tokA" ELSE "tokB"
\* the TokenResponse values the backend may answer a login with
TokenResponses ==
    {[user_id |-> u, access_token |-> TokenOf(u), expires_in |-> s] :
        u \in UserIds, s \in 1..MaxSeconds}
\* values the user may store in settings.userId ("" is the default)
SettingsUserIds == {"", "A"}

Anonymous  == "anonymous"

\* ------------------------------------------------------------------------
\* Helpers
\* ------------------------------------------------------------------------
Range(s) == {s[i] : i \in 1..Len(s)}

\* Array.prototype.findIndex over the ids of a list, 1-based; 0 when absent
IndexOfId(s, id) ==
    IF \E i \in 1..Len(s) : s[i].id = id
    THEN CHOOSE i \in 1..Len(s) : s[i].id = id /\ \A j \in 1..(i - 1) : s[j].id # id
    ELSE 0

\* Array.prototype.splice(index, 1), 1-based
RemoveAt(s, i) == SubSeq(s, 1, i - 1) \o SubSeq(s, i + 1, Len(s))

ConvIndex(convs, id) == IndexOfId(convs, id)
ConvIds(convs)       == {convs[i].id : i \in 1..Len(convs)}

\* JSON.stringify of a Date gives its ISO string; new Date(string) parses it
SerializeDate(t) == <<"iso", t>>
ParseDate(s)     == s[2]

\* ========================================================================
\* Chat store (useChatStore)
\* ========================================================================

DefaultSettings == [userId |-> ""]

\* JSON written by the persist middleware: partialize(state), dates as strings
SerializeMessage(m) == [m EXCEPT !.timestamp = SerializeDate(m.timestamp)]
SerializeConversation(c) ==
    [c EXCEPT !.createdAt = SerializeDate(c.createdAt),
              !.updatedAt = SerializeDate(c.updatedAt),
              !.messages  = [i \in 1..Len(c.messages) |-> SerializeMessage(c.messages[i])]]
partialize(convs, active, sett) ==
    <<[conversations        |-> [i \in 1..Len(convs) |-> SerializeConversation(convs[i])],
       activeConversationId |-> active,
       settings             |-> sett]>>

\* onRehydrateStorage, first part: the date strings become Date objects again
ReviveMessage(m) == [m EXCEPT !.timestamp = ParseDate(m.timestamp)]
ReviveConversation(c) ==
    [c EXCEPT !.createdAt = ParseDate(c.createdAt),
              !.updatedAt = ParseDate(c.updatedAt),
              !.messages  = [i \in 1..Len(c.messages) |-> ReviveMessage(c.messages[i])]]

RehydrateKeepsAll(conv, currentUserId) == TRUE

\* onRehydrateStorage, the ownership filter applied to one conversation
RehydrateKeeps(conv, currentUserId) ==
    IF currentUserId # ""
    THEN conv.userId = currentUserId \/ conv.userId = Anonymous
    ELSE FALSE

\* onRehydrateStorage: the conversations and active id the store holds after
\* rehydrating from the (merged) persisted state
ChatOnRehydrate(state, currentUserId) ==
    LET revived == [i \in 1..Len(state.conversations) |->
                        ReviveConversation(state.conversations[i])]
        kept    == SelectSeq(revived, LAMBDA c : RehydrateKeeps(c, currentUserId))
    IN  [conversations        |-> kept,
         activeConversationId |->
            IF state.activeConversationId # 0
               /\ ConvIndex(kept, state.activeConversationId) = 0
            THEN 0
            ELSE state.activeConversationId]

\* the state the persist middleware hands to onRehydrateStorage: the stored
\* record merged over initialState
ChatMergedState(storage) ==
    IF storage = <<>>
    THEN [conversations |-> <<>>, activeConversationId |-> 0, settings |-> DefaultSettings]
    ELSE storage[1]

\* every set() of the chat store is followed by the persist middleware's write
ChatPersist == chatStorage' = partialize(conversations', activeConversationId', settings')

OwnerOfNewConversation(authUser, sett) ==
    IF authUser # "" THEN authUser
    ELSE IF sett.userId # "" THEN sett.userId
    ELSE Anonymous

NewConversation(id, t, owner) ==
    [id |-> id, title |-> "New Conversation", userId |-> owner,
     messages |-> <<>>, createdAt |-> t, updatedAt |-> t]

createConversation ==
    /\ authPc = "idle"
    /\ nextId < MaxIds
    /\ nextId' = nextId + 1
    /\ conversations' =
          <<NewConversation(nextId + 1, now, OwnerOfNewConversation(user, settings))>>
          \o conversations
    /\ activeConversationId' = nextId + 1
    /\ error' = ""
    /\ UNCHANGED <<now, authVars, pendingJobs, isSending, settings, hookVars, poll, upload>>
    /\ ChatPersist

DeleteConversationFrom(convs, id) ==
    LET index == ConvIndex(convs, id)
    IN  IF index # 0 THEN RemoveAt(convs, index) ELSE convs

deleteConversationKeepsActive(id) ==
    /\ authPc = "idle"
    /\ conversations' = DeleteConversationFrom(conversations, id)
    /\ UNCHANGED <<now, authVars, activeConversationId, pendingJobs, isSending, error,
                   settings, nextId, hookVars, poll, upload>>
    /\ ChatPersist

deleteConversation(id) ==
    /\ authPc = "idle"
    /\ conversations' = DeleteConversationFrom(conversations, id)
    /\ activeConversationId' =
          IF activeConversationId = id
          THEN IF Len(conversations') > 0 THEN conversations'[1].id ELSE 0
          ELSE activeConversationId
    /\ UNCHANGED <<now, authVars, pendingJobs, isSending, error, settings, nextId,
                   hookVars, poll, upload>>
    /\ ChatPersist

setActiveConversation(id) ==
    /\ authPc = "idle"
    /\ activeConversationId' = id
    /\ error' = ""
    /\ UNCHANGED <<now, authVars, conversations, pendingJobs, isSending, settings, nextId,
                   hookVars, poll, upload>>
    /\ ChatPersist

clearConversations ==
    /\ authPc = "idle"
    /\ conversations' = <<>>
    /\ activeConversationId' = 0
    /\ pendingJobs' = <<>>
    /\ UNCHANGED <<now, authVars, isSending, error, settings, nextId, hookVars, poll, upload>>
    /\ ChatPersist

updateSettings(userId) ==
    /\ authPc = "idle"
    /\ settings' = [settings EXCEPT !.userId = userId]
    /\ UNCHANGED <<now, authVars, conversations, activeConversationId, pendingJobs,
                   isSending, error, nextId, hookVars, poll, upload>>
    /\ ChatPersist

\* ========================================================================
\* Chat store: messages and pending jobs
\* ========================================================================

NoMetadata == <<>>
\* the fields of MessageMetadata the hook writes, plus the "status" key that
\* sendMessage passes as metadata of the placeholder
Metadata(jobId, processingTime, status) ==
    <<[jobId |-> jobId, processingTime |-> processingTime, status |-> status]>>

\* lib/utils extractConversationTitle: a title derived from the content
extractConversationTitle(content) == "Title: " \o content

MsgIndex(msgs, id) == IndexOfId(msgs, id)

\* addMessage: the Message built before set()
NewMessage(id, role, content, metadata, t) ==
    [id |-> id, role |-> role, content |-> content, timestamp |-> t,
     status |-> IF role = "user" THEN "sent" ELSE "", metadata |-> metadata]

UserMessageCount(msgs) == Cardinality({i \in 1..Len(msgs) : msgs[i].role = "user"})

AddMessageFirst(convs, conversationId, msg, t) ==
    LET ci == ConvIndex(convs, conversationId)
    IN  IF ci = 0 THEN convs
        ELSE [convs EXCEPT ![ci] =
                [@ EXCEPT !.messages = <<msg>> \o @, !.updatedAt = t]]

\* addMessage: the set() callback
AddMessageTo(convs, conversationId, msg, t) ==
    LET ci == ConvIndex(convs, conversationId)
    IN  IF ci = 0 THEN convs
        ELSE LET pushed == Append(convs[ci].messages, msg)
             IN  [convs EXCEPT ![ci] =
                    [@ EXCEPT !.messages  = pushed,
                              !.updatedAt = t,
                              !.title     = IF msg.role = "user" /\ UserMessageCount(pushed) = 1
                                            THEN extractConversationTitle(msg.content)
                                            ELSE @]]

\* Object.assign(target, updates): updates is a record of the fields to set
ObjectAssign(target, updates) ==
    [f \in DOMAIN target |-> IF f \in DOMAIN updates THEN updates[f] ELSE target[f]]

UpdateMessageKeepsUpdatedAt(convs, conversationId, messageId, updates, t) ==
    LET ci == ConvIndex(convs, conversationId)
    IN  IF ci = 0 THEN convs
        ELSE LET mi == MsgIndex(convs[ci].messages, messageId)
             IN  IF mi = 0 THEN convs
                 ELSE [convs EXCEPT ![ci].messages[mi] = ObjectAssign(@, updates)]

UpdateEveryMessageIn(convs, conversationId, messageId, updates, t) ==
    LET ci == ConvIndex(convs, conversationId)
    IN  IF ci = 0 THEN convs
        ELSE [convs EXCEPT ![ci] =
                [@ EXCEPT !.messages = [i \in 1..Len(@) |-> ObjectAssign(@[i], updates)],
                          !.updatedAt = t]]

\* updateMessage: the set() callback
UpdateMessageIn(convs, conversationId, messageId, updates, t) ==
    LET ci == ConvIndex(convs, conversationId)
    IN  IF ci = 0 THEN convs
        ELSE LET mi == MsgIndex(convs[ci].messages, messageId)
             IN  IF mi = 0 THEN convs
                 ELSE [convs EXCEPT ![ci] =
                         [@ EXCEPT !.messages[mi] = ObjectAssign(@, updates),
                                   !.updatedAt    = t]]

\* addPendingJob
AddPendingJobTo(jobs, job) ==
    [k \in DOMAIN jobs \cup {job.jobId} |-> IF k = job.jobId THEN job ELSE jobs[k]]

KeepPendingJob(jobs, jobId) == jobs

\* removePendingJob: delete state.pendingJobs[jobId]
RemovePendingJobFrom(jobs, jobId) == [k \in DOMAIN jobs \ {jobId} |-> jobs[k]]

\* updatePendingJob
UpdatePendingJobIn(jobs, jobId, updates) ==
    IF jobId \in DOMAIN jobs
    THEN [jobs EXCEPT ![jobId] = ObjectAssign(@, updates)]
    ELSE jobs

\* the message with the given ids, as a sequence of length 0 or 1
FindMessage(convs, conversationId, messageId) ==
    LET ci == ConvIndex(convs, conversationId)
    IN  IF ci = 0 THEN <<>>
        ELSE LET mi == MsgIndex(convs[ci].messages, messageId)
             IN  IF mi = 0 THEN <<>> ELSE <<convs[ci].messages[mi]>>

\* ========================================================================
\* Auth store (useAuthStore)
\* ========================================================================

NoAuthArg == [user_id |-> "", access_token |-> "", expiresAt |-> 0]

AuthRecord(isAuth, u, tok, exp) ==
    <<[isAuthenticated |-> isAuth, user |-> u, token |-> tok, expiresAt |-> exp]>>

\* every set() of the auth store is followed by the persist middleware's write
AuthPersist == authStorage' = AuthRecord(isAuthenticated', user', token', expiresAt')

LoginNeverPurges(previousUserId, newUserId) == FALSE

\* login(): "if (previousUserId && previousUserId !== newUserId)"
LoginMustPurge(previousUserId, newUserId) ==
    previousUserId # "" /\ previousUserId # newUserId

\* login(), up to and including the conditional localStorage.removeItem
LoginPurge(response) ==
    /\ authPc = "idle"
    /\ authArg' = [user_id      |-> response.user_id,
                   access_token |-> response.access_token,
                   expiresAt    |-> now + response.expires_in * MsPerSecond]
    /\ chatStorage' = IF LoginMustPurge(user, response.user_id) THEN <<>> ELSE chatStorage
    /\ authPc' = "login"
    /\ UNCHANGED <<now, isAuthenticated, user, token, expiresAt, authStorage,
                   conversations, activeConversationId, pendingJobs, isSending, error,
                   settings, nextId, hookVars, poll, upload>>

\* login(), the set() that adopts the new identity
LoginSet ==
    /\ authPc = "login"
    /\ isAuthenticated' = TRUE
    /\ user' = authArg.user_id
    /\ token' = authArg.access_token
    /\ expiresAt' = authArg.expiresAt
    /\ AuthPersist
    /\ authPc' = "idle"
    /\ authArg' = NoAuthArg
    /\ UNCHANGED <<now, chatVars, hookVars, poll, upload>>

\* logout(), the removal of the chat record
LogoutPurge ==
    /\ authPc = "idle"
    /\ chatStorage' = IF chatStorage # <<>> THEN <<>> ELSE chatStorage
    /\ authPc' = "logout"
    /\ UNCHANGED <<now, isAuthenticated, user, token, expiresAt, authArg, authStorage,
                   conversations, activeConversationId, pendingJobs, isSending, error,
                   settings, nextId, hookVars, poll, upload>>

\* logout(), the set() that clears the auth state
LogoutSet ==
    /\ authPc = "logout"
    /\ isAuthenticated' = FALSE
    /\ user' = ""
    /\ token' = ""
    /\ expiresAt' = 0
    /\ AuthPersist
    /\ authPc' = "idle"
    /\ UNCHANGED <<now, authArg, chatVars, hookVars, poll, upload>>

setUser(u) ==
    /\ authPc = "idle"
    /\ user' = u
    /\ UNCHANGED <<isAuthenticated, token, expiresAt>>
    /\ UNCHANGED <<now, authPc, authArg, chatVars, hookVars, poll, upload>>
    /\ AuthPersist

\* the expiry check shared by initialize() and the auth onRehydrateStorage hook
AuthExpiredAtLoad(tok, exp, t) == tok # "" /\ exp # 0 /\ t >= exp

\* onRehydrateStorage of the auth store: the auth state after rehydration
AuthOnRehydrate(state, t) ==
    IF AuthExpiredAtLoad(state.token, state.expiresAt, t)
    THEN [isAuthenticated |-> FALSE, user |-> "", token |-> "", expiresAt |-> 0]
    ELSE state

AuthMergedState(storage) ==
    IF storage = <<>>
    THEN [isAuthenticated |-> FALSE, user |-> "", token |-> "", expiresAt |-> 0]
    ELSE storage[1]

\* ========================================================================
\* Page load: both stores are created and rehydrated from localStorage, the
\* auth store first (the chat store module imports it)
\* ========================================================================
Rehydrate ==
    /\ authPc = "idle"
    /\ LET auth == AuthOnRehydrate(AuthMergedState(authStorage), now)
           chat == ChatOnRehydrate(ChatMergedState(chatStorage), auth.user)
       IN  /\ isAuthenticated' = auth.isAuthenticated
           /\ user' = auth.user
           /\ token' = auth.token
           /\ expiresAt' = auth.expiresAt
           /\ conversations' = chat.conversations
           /\ activeConversationId' = chat.activeConversationId
           /\ settings' = ChatMergedState(chatStorage).settings
    /\ pendingJobs' = <<>>
    /\ isSending' = FALSE
    /\ error' = ""
    /\ UNCHANGED <<now, authPc, authArg, authStorage, chatStorage, nextId, hookVars, poll, upload>>

\* time passes between handlers
Tick ==
    /\ authPc = "idle"
    /\ now + MsPerSecond <= MaxClock * MsPerSecond
    /\ now' = now + MsPerSecond
    /\ UNCHANGED <<authVars, chatVars, hookVars, poll, upload>>

\* ------------------------------------------------------------------------
\* Values of the parts of the state a specification does not use
\* ------------------------------------------------------------------------
NoPoll == [pc |-> "unused"]
NoUpload == [pc |-> "unused"]

InitAuth ==
    /\ isAuthenticated = FALSE /\ user = "" /\ token = "" /\ expiresAt = 0
    /\ authPc = "idle" /\ authArg = NoAuthArg /\ authStorage = <<>>

InitChat ==
    /\ conversations = <<>> /\ activeConversationId = 0 /\ pendingJobs = <<>>
    /\ isSending = FALSE /\ error = "" /\ settings = DefaultSettings
    /\ chatStorage = <<>> /\ nextId = 0

InitHook ==
    /\ pollingRef = {} /\ abortControllersRef = {} /\ submits = <<>>
    /\ loops = <<>> /\ nextJob = 0

\* ========================================================================
\* SpecStore: the two stores, their persistence and page reloads
\* ========================================================================
InitStore == now = 0 /\ InitAuth /\ InitChat /\ InitHook /\ poll = NoPoll /\ upload = NoUpload

NextStore ==
    \/ Tick
    \/ createConversation
    \/ \E id \in 1..MaxIds : deleteConversation(id)
    \/ \E id \in 0..MaxIds : setActiveConversation(id)
    \/ clearConversations
    \/ \E u \in SettingsUserIds : updateSettings(u)
    \/ \E r \in TokenResponses : LoginPurge(r)
    \/ LoginSet
    \/ LogoutPurge
    \/ LogoutSet
    \/ \E u \in UserIds : setUser(u)
    \/ Rehydrate

SpecStore == InitStore /\ [][NextStore]_vars

\* ------------------------------------------------------------------------
\* Claims about SpecStore
\* ------------------------------------------------------------------------
AuthFields == <<isAuthenticated, user, token, expiresAt>>

\* C1: the set() of logout(), and the set() of a login() that replaces a
\* signed-in identity by a different one, start (and end) with the persisted
\* chat record removed, and the auth fields are untouched until that set();
\* a login() with no previous identity or with the same identity leaves the
\* persisted chat record as it was.
C1_PurgeBeforeAuthChange ==
    [][ /\ (authPc = "logout" /\ authPc' = "idle")
            => (chatStorage = <<>> /\ chatStorage' = <<>>)
        /\ (authPc = "login" /\ authPc' = "idle" /\ user # "" /\ user # authArg.user_id)
            => (chatStorage = <<>> /\ chatStorage' = <<>>)
        /\ (authPc = "idle" /\ authPc' # "idle") => AuthFields' = AuthFields
        /\ (authPc = "idle" /\ authPc' = "login"
              /\ (user = "" \/ user = authArg'.user_id))
            => chatStorage' = chatStorage
      ]_vars

\* a login from one identity to another has removed a record that held
\* conversations and is about to adopt the new identity
C1_Witness ==
    /\ authPc = "login" /\ user # "" /\ user # authArg.user_id
    /\ conversations # <<>> /\ chatStorage = <<>>

PersistedConversations == IF chatStorage = <<>> THEN <<>> ELSE chatStorage[1].conversations
PersistedActiveId      == IF chatStorage = <<>> THEN 0 ELSE chatStorage[1].activeConversationId

\* C2: a rehydration leaves in the store exactly the persisted conversations
\* owned by the identity the auth store holds or by "anonymous", in their
\* persisted order and with their content; none when the auth store holds no
\* identity (as after logout()); and activeConversationId is the persisted
\* one when that conversation was kept and null otherwise.
C2_RehydrateFiltersByOwner ==
    [][ Rehydrate =>
          LET stored  == PersistedConversations
              keepIdx == {i \in 1..Len(stored) :
                            user' # "" /\ stored[i].userId \in {user', Anonymous}}
              pos(j)  == CHOOSE i \in keepIdx :
                            Cardinality({k \in keepIdx : k <= i}) = j
          IN  /\ Len(conversations') = Cardinality(keepIdx)
              /\ \A j \in 1..Len(conversations') :
                    SerializeConversation(conversations'[j]) = stored[pos(j)]
              /\ activeConversationId' =
                    IF PersistedActiveId \in ConvIds(conversations')
                    THEN PersistedActiveId ELSE 0
              /\ (user' = "" => conversations' = <<>> /\ activeConversationId' = 0)
      ]_vars

\* the store holds fewer conversations than the record it was rehydrated
\* from: another owner's conversation, which was the active one, was dropped
C2_Witness ==
    /\ authPc = "idle" /\ user # "" /\ conversations # <<>>
    /\ Len(PersistedConversations) > Len(conversations)
    /\ \E i \in 1..Len(PersistedConversations) :
          /\ PersistedConversations[i].userId \notin {user, Anonymous}
          /\ PersistedActiveId = PersistedConversations[i].id
    /\ activeConversationId = 0

\* ========================================================================
\* The API client (lib/api): failures of a request
\* ========================================================================

\* how a request can fail: no response, a 5xx response, a 401 response
ApiFailureKinds == {"network", "server", "unauthorized"}

\* handleApiError: the error the response interceptor rejects with
handleApiError(kind) ==
    CASE kind = "network" ->
            [class |-> "ChatError", code |-> "NETWORK_ERROR",
             message |-> "Unable to connect to server. Please check your connection."]
      [] kind = "server" ->
            [class |-> "ChatError", code |-> "SERVER_ERROR", message |-> "Server error: 500"]
      [] kind = "unauthorized" ->
            [class |-> "AuthError", code |-> "SERVER_ERROR", message |-> "Server error: 401"]

\* the set() of logout()
logoutSet ==
    /\ isAuthenticated' = FALSE
    /\ user' = ""
    /\ token' = ""
    /\ expiresAt' = 0
    /\ AuthPersist
    /\ UNCHANGED <<authPc, authArg>>

\* response interceptor: a 401 calls onAuthError, which ApiProvider sets to
\* logout(); this is what logout() does to the auth store ...
OnResponseErrorAuth(kind) ==
    IF kind = "unauthorized" THEN logoutSet ELSE UNCHANGED authVars

\* ... and to the persisted chat record
StorageAfterResponseError(kind, storage) ==
    IF kind = "unauthorized" THEN <<>> ELSE storage

\* ========================================================================
\* pollJobUntilComplete (lib/api)
\* ========================================================================

NonTerminalStatuses == {"queued", "started", "deferred", "scheduled", "stopped"}
JobStatuses         == NonTerminalStatuses \cup {"finished", "failed", "not_found"}

\* the JobStatusResponse values the backend may answer a status request with
JobStatusResponses ==
    {[status |-> st, result |-> "", error |-> ""] : st \in JobStatuses}
    \cup {[status |-> "finished", result |-> "answer", error |-> ""],
          [status |-> "failed", result |-> "", error |-> "boom"]}

NoResponse == [status |-> "", result |-> "", error |-> ""]
NoError    == [class |-> "", code |-> "", message |-> ""]

\* the PollOptions explored: the defaults, small intervals, an initial
\* interval above the maximum, zero intervals, and a zero timeout
DefaultPollOptions == [initialInterval |-> 500, maxInterval |-> 3000, timeout |-> 120000]
PollOptionsSet ==
    {DefaultPollOptions,
     [initialInterval |-> 2,    maxInterval |-> 5,    timeout |-> 20],
     [initialInterval |-> 5000, maxInterval |-> 3000, timeout |-> 9000],
     [initialInterval |-> 0,    maxInterval |-> 0,    timeout |-> 3],
     [initialInterval |-> 1,    maxInterval |-> 3,    timeout |-> 0]}

\* "interval" is a double; the values it takes are dyadic rationals, kept
\* here exactly as <<numerator, denominator>> in lowest terms
RECURSIVE Reduce(_)
Reduce(iv) ==
    IF iv[2] > 1 /\ iv[1] % 2 = 0 THEN Reduce(<<iv[1] \div 2, iv[2] \div 2>>) ELSE iv

\* interval * 1.5
TimesOneAndAHalf(iv) == Reduce(<<3 * iv[1], 2 * iv[2]>>)

\* Math.min(x, maxInterval)
MinWith(iv, maxInterval) == IF iv[1] > maxInterval * iv[2] THEN <<maxInterval, 1>> ELSE iv

\* interval = Math.min(interval * 1.5, maxInterval)
NextInterval(iv, maxInterval) == MinWith(TimesOneAndAHalf(iv), maxInterval)

\* setTimeout(resolve, interval): the timer runs for the whole milliseconds
\* of the interval
TimerDelay(iv) == iv[1] \div iv[2]

LoopContinuesAtDeadline(t, startTime, timeout) == t - startTime <= timeout

\* while (Date.now() - startTime < timeout)
LoopContinues(t, startTime, timeout) == t - startTime < timeout

StatusOutcomeFinishedOnly(response) ==
    IF response.status = "finished" THEN "return" ELSE "continue"

\* what the loop body does with a fetched status
StatusOutcome(response) ==
    CASE response.status = "finished"  -> "return"
      [] response.status = "failed"    -> "JOB_FAILED"
      [] response.status = "not_found" -> "JOB_NOT_FOUND"
      [] OTHER                         -> "continue"

\* the ChatError thrown for a failed or unknown job
StatusError(response) ==
    IF response.status = "failed"
    THEN [class |-> "ChatError", code |-> "JOB_FAILED",
          message |-> IF response.error # "" THEN response.error
                      ELSE "Job processing failed"]
    ELSE [class |-> "ChatError", code |-> "JOB_NOT_FOUND",
          message |-> "Job not found. It may have expired."]

PollTimeoutError ==
    [class |-> "ChatError", code |-> "POLL_TIMEOUT",
     message |-> "Job polling timed out. Please try again."]

\* the locals of a call: entered at time t with the given options
PollEntered(options, t) ==
    [pc |-> "head", options |-> options, startTime |-> t, attempt |-> 0,
     interval |-> <<options.initialInterval, 1>>, delay |-> 0, wakeAt |-> 0,
     status |-> NoResponse, err |-> NoError]

\* the loop condition, evaluated at time t: another request, or POLL_TIMEOUT
LoopHead(p, t) ==
    IF LoopContinues(t, p.startTime, p.options.timeout)
    THEN [p EXCEPT !.pc = "fetch", !.attempt = p.attempt + 1]
    ELSE [p EXCEPT !.pc = "raised", !.err = PollTimeoutError]

\* the status request answered at time t
OnStatus(p, response, t) ==
    LET outcome == StatusOutcome(response)
        q       == [p EXCEPT !.status = response]
    IN  CASE outcome = "return"   -> [q EXCEPT !.pc = "returned"]
          [] outcome = "continue" ->
                [q EXCEPT !.pc = "delay", !.delay = TimerDelay(p.interval),
                          !.wakeAt = t + TimerDelay(p.interval)]
          [] OTHER                -> [q EXCEPT !.pc = "raised", !.err = StatusError(response)]

\* the status request rejected: the error propagates out of the loop
OnFetchError(p, kind) == [p EXCEPT !.pc = "raised", !.err = handleApiError(kind)]

\* the timer fired at time t: the interval grows and the loop condition is
\* evaluated again
OnTimer(p, t) ==
    LoopHead([p EXCEPT !.interval = NextInterval(p.interval, p.options.maxInterval)], t)

PollDone(p) == p.pc \in {"returned", "raised"}

\* ------------------------------------------------------------------------
\* SpecPoll: one call of pollJobUntilComplete against an arbitrary backend
\* ------------------------------------------------------------------------
PollCall(options) ==
    /\ poll.pc = "idle"
    /\ poll' = LoopHead(PollEntered(options, now), now)
    /\ UNCHANGED <<now, authVars, chatVars, hookVars, upload>>

PollFetchReturns(response, latency) ==
    /\ poll.pc = "fetch"
    /\ now + latency <= MaxPollClock
    /\ now' = now + latency
    /\ poll' = OnStatus(poll, response, now')
    /\ UNCHANGED <<authVars, chatVars, hookVars, upload>>

PollFetchFails(kind, latency) ==
    /\ poll.pc = "fetch"
    /\ now + latency <= MaxPollClock
    /\ now' = now + latency
    /\ poll' = OnFetchError(poll, kind)
    /\ OnResponseErrorAuth(kind)
    /\ chatStorage' = StorageAfterResponseError(kind, chatStorage)
    /\ UNCHANGED <<conversations, activeConversationId, pendingJobs, isSending, error,
                   settings, nextId, hookVars, upload>>

PollTimerFires(lateness) ==
    /\ poll.pc = "delay"
    /\ poll.wakeAt + lateness <= MaxPollClock
    /\ now' = poll.wakeAt + lateness
    /\ poll' = OnTimer(poll, now')
    /\ UNCHANGED <<authVars, chatVars, hookVars, upload>>

IdlePoll == [PollEntered(DefaultPollOptions, 0) EXCEPT !.pc = "idle"]

InitPoll == now = 0 /\ InitAuth /\ InitChat /\ InitHook /\ poll = IdlePoll /\ upload = NoUpload

NextPoll ==
    \/ \E o \in PollOptionsSet : PollCall(o)
    \/ \E r \in JobStatusResponses, l \in 1..MaxLatency : PollFetchReturns(r, l)
    \/ \E k \in ApiFailureKinds, l \in 1..MaxLatency : PollFetchFails(k, l)
    \/ \E l \in 0..MaxLateness : PollTimerFires(l)

SpecPoll == InitPoll /\ [][NextPoll]_vars

\* every request is eventually answered or fails, and every timer fires
FairSpecPoll == SpecPoll /\ WF_vars(NextPoll)

\* ========================================================================
\* The useChat hook (hooks/use-chat.ts)
\* ========================================================================

\* the pollOptions the hook is mounted with
ChatPollOptions == [initialInterval |-> 1, maxInterval |-> 2, timeout |-> 2]

\* what the backend may answer to a status request of the hook
ChatJobStatusResponses ==
    {r \in JobStatusResponses : r.status \in {"queued", "finished", "failed"}}

\* how a request of the hook may fail
ChatFailureKinds == {"server", "unauthorized"}

\* what the user may type: a body with or without surrounding white space
ChatInputs ==
    {[body |-> "", padded |-> TRUE],
     [body |-> "hello", padded |-> TRUE],
     [body |-> "hello", padded |-> FALSE]}

\* content.trim()
trim(content) == content.body

\* "Error: ${chatError.message}"
ErrorContent(err) == "Error: " \o err.message

\* getPendingJob(jobId)?.startedAt?.getTime() || Date.now()
StartedAtOrNow(jobs, jobId, t) ==
    IF jobId \in DOMAIN jobs /\ jobs[jobId].startedAt # 0 THEN jobs[jobId].startedAt ELSE t

\* pollForResponse after pollJobUntilComplete settled as p (or is still
\* polling): the store fields it leaves, and whether the call has ended
PollForResponseSettles(convs, jobs, err, jobId, conversationId, messageId, p, t) ==
    CASE p.pc = "returned" ->
            [conversations |->
                IF p.status.result # ""
                THEN UpdateMessageIn(convs, conversationId, messageId,
                        [content  |-> p.status.result,
                         status   |-> "sent",
                         metadata |-> Metadata(jobId, t - StartedAtOrNow(jobs, jobId, t), "")],
                        t)
                ELSE convs,
             pendingJobs |-> RemovePendingJobFrom(jobs, jobId),
             error |-> err, ended |-> TRUE]
      [] p.pc = "raised" ->
            [conversations |->
                UpdateMessageIn(convs, conversationId, messageId,
                    [content |-> ErrorContent(p.err), status |-> "error"], t),
             pendingJobs |-> RemovePendingJobFrom(jobs, jobId),
             error |-> p.err.message, ended |-> TRUE]
      [] OTHER ->
            [conversations |-> convs, pendingJobs |-> jobs, error |-> err, ended |-> FALSE]

\* the effect of one step of a poll loop on the store and the hook's refs
ApplyPollStep(jobId, jobs, p) ==
    LET loop == loops[jobId]
        r    == PollForResponseSettles(conversations, jobs, error, jobId,
                                       loop.conversationId, loop.messageId, p, now)
    IN  /\ conversations' = r.conversations
        /\ pendingJobs' = r.pendingJobs
        /\ error' = r.error
        /\ pollingRef' = IF r.ended THEN pollingRef \ {jobId} ELSE pollingRef
        /\ abortControllersRef' =
              IF r.ended THEN abortControllersRef \ {jobId} ELSE abortControllersRef
        /\ loops' = IF r.ended
                    THEN [k \in DOMAIN loops \ {jobId} |-> loops[k]]
                    ELSE [loops EXCEPT ![jobId].p = p]

\* sendMessage, up to "await chatApi.sendMessage(trimmedContent)"
sendMessage(content) ==
    /\ authPc = "idle"
    /\ (trim(content) # "" /\ isAuthenticated) =>
          /\ nextId + (IF activeConversationId = 0 THEN 3 ELSE 2) <= MaxChatIds
          /\ nextJob + Len(submits) < MaxJobs
    /\ LET trimmedContent == trim(content)
       IN  IF trimmedContent = ""
           THEN UNCHANGED vars
           ELSE IF ~isAuthenticated
           THEN /\ error' = "Please sign in to send messages"
                /\ UNCHANGED <<now, authVars, conversations, activeConversationId,
                               pendingJobs, isSending, settings, nextId, hookVars, poll, upload>>
                /\ ChatPersist
           ELSE LET create == activeConversationId = 0
                    base   == IF create THEN nextId + 1 ELSE nextId
                    conversationId == IF create THEN nextId + 1 ELSE activeConversationId
                    convs0 == IF create
                              THEN <<NewConversation(conversationId, now,
                                        OwnerOfNewConversation(user, settings))>>
                                   \o conversations
                              ELSE conversations
                    userMessageId      == base + 1
                    assistantMessageId == base + 2
                    convs1 == AddMessageTo(convs0, conversationId,
                                 NewMessage(userMessageId, "user", trimmedContent,
                                            NoMetadata, now), now)
                    convs2 == AddMessageTo(convs1, conversationId,
                                 NewMessage(assistantMessageId, "assistant", "",
                                            Metadata(0, -1, "sending"), now), now)
                    convs3 == UpdateMessageIn(convs2, conversationId, assistantMessageId,
                                 [content |-> "...", status |-> "sending"], now)
                IN  /\ conversations' = convs3
                    /\ activeConversationId' = conversationId
                    /\ nextId' = base + 2
                    /\ isSending' = TRUE
                    /\ error' = ""
                    /\ submits' = Append(submits,
                          [kind |-> "send", conversationId |-> conversationId,
                           messageId |-> assistantMessageId, query |-> trimmedContent])
                    /\ UNCHANGED <<now, authVars, pendingJobs, settings,
                                   pollingRef, abortControllersRef, loops, nextJob, poll, upload>>
                    /\ ChatPersist

\* retryMessage, up to "await chatApi.sendMessage(query)"
retryMessage(messageId) ==
    /\ authPc = "idle"
    /\ nextJob + Len(submits) < MaxJobs
    /\ LET ci == IF activeConversationId = 0 THEN 0
                 ELSE ConvIndex(conversations, activeConversationId)
       IN  IF ci = 0
           THEN UNCHANGED vars
           ELSE IF ~isAuthenticated
           THEN /\ error' = "Please sign in to retry messages"
                /\ UNCHANGED <<now, authVars, conversations, activeConversationId,
                               pendingJobs, isSending, settings, nextId, hookVars, poll, upload>>
                /\ ChatPersist
           ELSE LET conversation == conversations[ci]
                    messageIndex == MsgIndex(conversation.messages, messageId)
                IN  IF \/ messageIndex = 0
                       \/ conversation.messages[messageIndex].role # "user"
                       \/ messageIndex + 1 > Len(conversation.messages)
                       \/ conversation.messages[messageIndex + 1].role # "assistant"
                    THEN UNCHANGED vars
                    ELSE LET assistantMessage == conversation.messages[messageIndex + 1]
                             query == conversation.messages[messageIndex].content
                         IN  /\ conversations' =
                                   UpdateMessageIn(conversations, conversation.id,
                                       assistantMessage.id,
                                       [content |-> "...", status |-> "sending"], now)
                             /\ isSending' = TRUE
                             /\ error' = ""
                             /\ submits' = Append(submits,
                                   [kind |-> "retry", conversationId |-> conversation.id,
                                    messageId |-> assistantMessage.id, query |-> query])
                             /\ UNCHANGED <<now, authVars, activeConversationId, pendingJobs,
                                            settings, nextId, pollingRef,
                                            abortControllersRef, loops, nextJob, poll, upload>>
                             /\ ChatPersist

\* sendMessage / retryMessage after the submit request answered: the job is
\* tracked, pollForResponse starts polling it, and "finally" clears isSending
SubmitSucceeds(i) ==
    /\ authPc = "idle"
    /\ i \in 1..Len(submits)
    /\ LET s     == submits[i]
           jobId == nextJob + 1
           jobs1 == AddPendingJobTo(pendingJobs,
                       [jobId |-> jobId, messageId |-> s.messageId,
                        conversationId |-> s.conversationId, query |-> s.query,
                        startedAt |-> now, pollCount |-> 0])
           p     == LoopHead(PollEntered(ChatPollOptions, now), now)
           r     == PollForResponseSettles(conversations, jobs1, error, jobId,
                                           s.conversationId, s.messageId, p, now)
       IN  /\ nextJob' = jobId
           /\ submits' = RemoveAt(submits, i)
           /\ conversations' = r.conversations
           /\ pendingJobs' = r.pendingJobs
           /\ error' = r.error
           /\ pollingRef' = IF r.ended THEN pollingRef \ {jobId} ELSE pollingRef \cup {jobId}
           /\ abortControllersRef' = abortControllersRef \ {jobId}
           /\ loops' = IF r.ended THEN loops
                       ELSE [k \in DOMAIN loops \cup {jobId} |->
                               IF k = jobId
                               THEN [p |-> p, conversationId |-> s.conversationId,
                                     messageId |-> s.messageId]
                               ELSE loops[k]]
           /\ isSending' = FALSE
    /\ UNCHANGED <<now, authVars, activeConversationId, settings, nextId, poll, upload>>
    /\ ChatPersist

\* sendMessage / retryMessage after the submit request failed
SubmitFails(i, kind) ==
    /\ authPc = "idle"
    /\ i \in 1..Len(submits)
    /\ LET s        == submits[i]
           apiError == handleApiError(kind)
       IN  /\ submits' = RemoveAt(submits, i)
           /\ conversations' =
                 UpdateMessageIn(conversations, s.conversationId, s.messageId,
                     [content |-> ErrorContent(apiError), status |-> "error"], now)
           /\ error' = apiError.message
           /\ isSending' = FALSE
    /\ OnResponseErrorAuth(kind)
    /\ UNCHANGED <<now, activeConversationId, pendingJobs, settings, nextId,
                   pollingRef, abortControllersRef, loops, nextJob, poll, upload>>
    /\ ChatPersist

\* a poll loop receives a job status: onPoll records the attempt, then the
\* status is handled
FetchReturns(jobId, response) ==
    /\ authPc = "idle"
    /\ jobId \in DOMAIN loops
    /\ loops[jobId].p.pc = "fetch"
    \* a status that schedules a delay is explored while its timer falls
    \* within the clock's horizon
    /\ LET p == OnStatus(loops[jobId].p, response, now)
       IN  p.pc = "delay" => p.wakeAt <= MaxChatClock
    /\ ApplyPollStep(jobId,
          UpdatePendingJobIn(pendingJobs, jobId, [pollCount |-> loops[jobId].p.attempt]),
          OnStatus(loops[jobId].p, response, now))
    /\ UNCHANGED <<now, authVars, activeConversationId, isSending, settings, nextId,
                   submits, nextJob, poll, upload>>
    /\ ChatPersist

\* a poll loop's status request fails
FetchFails(jobId, kind) ==
    /\ authPc = "idle"
    /\ jobId \in DOMAIN loops
    /\ loops[jobId].p.pc = "fetch"
    /\ ApplyPollStep(jobId, pendingJobs, OnFetchError(loops[jobId].p, kind))
    /\ OnResponseErrorAuth(kind)
    /\ UNCHANGED <<now, activeConversationId, isSending, settings, nextId,
                   submits, nextJob, poll, upload>>
    /\ ChatPersist

\* a poll loop's delay is over
TimerFires(jobId) ==
    /\ authPc = "idle"
    /\ jobId \in DOMAIN loops
    /\ loops[jobId].p.pc = "delay"
    /\ now >= loops[jobId].p.wakeAt
    /\ ApplyPollStep(jobId, pendingJobs, OnTimer(loops[jobId].p, now))
    /\ UNCHANGED <<now, authVars, activeConversationId, isSending, settings, nextId,
                   submits, nextJob, poll, upload>>
    /\ ChatPersist

\* cancelJob
cancelJob(jobId) ==
    /\ authPc = "idle"
    /\ LET jobs1 == RemovePendingJobFrom(pendingJobs, jobId)
       IN  /\ pollingRef' = pollingRef \ {jobId}
           /\ abortControllersRef' = abortControllersRef \ {jobId}
           /\ pendingJobs' = jobs1
           \* useChatStore.getState().getPendingJob(jobId), read after the removal
           /\ conversations' =
                 IF jobId \in DOMAIN jobs1
                 THEN UpdateMessageIn(conversations, jobs1[jobId].conversationId,
                         jobs1[jobId].messageId,
                         [content |-> "Request cancelled", status |-> "error"], now)
                 ELSE conversations
    \* no AbortSignal is passed to pollJobUntilComplete or to the request
    /\ UNCHANGED <<now, authVars, activeConversationId, isSending, error, settings, nextId,
                   submits, loops, nextJob, poll, upload>>
    /\ ChatPersist

ChatTick ==
    /\ authPc = "idle"
    /\ now < MaxChatClock
    /\ now' = now + 1
    /\ UNCHANGED <<authVars, chatVars, hookVars, poll, upload>>

\* ------------------------------------------------------------------------
\* SpecChat: the hook mounted for a signed-in user, against an arbitrary
\* backend
\* ------------------------------------------------------------------------
InitChatHook ==
    /\ now = 0
    /\ isAuthenticated = TRUE /\ user = "A" /\ token = TokenOf("A")
    /\ expiresAt = MsPerSecond
    /\ authPc = "idle" /\ authArg = NoAuthArg
    /\ authStorage = AuthRecord(TRUE, "A", TokenOf("A"), MsPerSecond)
    /\ InitChat /\ InitHook /\ poll = NoPoll /\ upload = NoUpload

NextChat ==
    \/ ChatTick
    \/ \E c \in ChatInputs : sendMessage(c)
    \/ \E m \in 1..MaxChatIds : retryMessage(m)
    \/ \E j \in 1..MaxJobs : cancelJob(j)
    \/ \E i \in 1..MaxJobs : SubmitSucceeds(i)
    \/ \E i \in 1..MaxJobs, k \in ChatFailureKinds : SubmitFails(i, k)
    \/ \E j \in 1..MaxJobs, r \in ChatJobStatusResponses : FetchReturns(j, r)
    \/ \E j \in 1..MaxJobs, k \in ChatFailureKinds : FetchFails(j, k)
    \/ \E j \in 1..MaxJobs : TimerFires(j)
    \/ clearConversations

SpecChat == InitChatHook /\ [][NextChat]_vars

\* every submit request and every status request eventually returns or
\* fails, due timers fire, and time advances
FairSpecChat ==
    /\ SpecChat
    /\ WF_vars(ChatTick)
    /\ WF_vars(\E i \in 1..MaxJobs :
                  SubmitSucceeds(i) \/ \E k \in ChatFailureKinds : SubmitFails(i, k))
    /\ \A j \in 1..MaxJobs :
          /\ WF_vars((\E r \in ChatJobStatusResponses : FetchReturns(j, r))
                     \/ (\E k \in ChatFailureKinds : FetchFails(j, k)))
          /\ WF_vars(TimerFires(j))

\* ------------------------------------------------------------------------
\* Claims about SpecChat
\* ------------------------------------------------------------------------

\* the assistant message (conversationId, messageId) is stored with the given
\* status
AssistantHasStatus(convs, conversationId, messageId, statuses) ==
    LET found == FindMessage(convs, conversationId, messageId)
    IN  /\ Len(found) = 1
        /\ found[1].role = "assistant"
        /\ found[1].status \in statuses

\* C3: every assistant placeholder that is in status "sending" eventually
\* reaches status "sent" or "error" (or is deleted with its conversation),
\* whatever the backend answers, when every request eventually returns or
\* fails and time advances.
C3_PlaceholderResolves ==
    \A c \in 1..MaxChatIds, m \in 1..MaxChatIds :
        AssistantHasStatus(conversations, c, m, {"sending"})
            ~> ~AssistantHasStatus(conversations, c, m, {"sending"})

\* C4: once an assistant message has status "sent" or "error", a step keeps
\* its status and content, unless the step is a retryMessage that moves it
\* back to "sending".
C4_TerminalIsFinal ==
    [][\A c \in 1..MaxChatIds, m \in 1..MaxChatIds :
          LET before == FindMessage(conversations, c, m)
              after  == FindMessage(conversations', c, m)
          IN  (/\ AssistantHasStatus(conversations, c, m, {"sent", "error"})
               /\ Len(after) = 1)
              => \/ /\ after[1].status = before[1].status
                    /\ after[1].content = before[1].content
                 \/ /\ \E id \in 1..MaxChatIds : retryMessage(id)
                    /\ after[1].status = "sending"]_vars

\* C5: a poll loop that still has a status request in flight or a delay
\* scheduled belongs to a job that was not cancelled (pollingRef holds a job
\* from the start of its loop until the loop ends or cancelJob is called).
C5_CancelStopsPolling ==
    \A j \in DOMAIN loops : j \in pollingRef

\* C6: cancelJob(jobId) on a job present in pendingJobs removes the pending
\* job and leaves its assistant message with content "Request cancelled" and
\* a status other than "sending".
C6_CancelMarksMessage ==
    [][\A j \in 1..MaxJobs :
          (cancelJob(j) /\ j \in DOMAIN pendingJobs)
          => /\ j \notin DOMAIN pendingJobs'
             /\ LET after == FindMessage(conversations', pendingJobs[j].conversationId,
                                         pendingJobs[j].messageId)
                IN  /\ Len(after) = 1
                    /\ after[1].content = "Request cancelled"
                    /\ after[1].status # "sending"]_vars

\* C7: every entry of pendingJobs belongs to a job whose poll loop is active;
\* a step that ends a job's poll loop or cancels the job (either takes the
\* job out of pollingRef) leaves no entry for it, and an entry only appears
\* in the step that starts the job's loop.
C7_PendingJobsWhileLoopActive ==
    /\ [](\A j \in DOMAIN pendingJobs :
             j \in DOMAIN loops /\ loops[j].p.pc \in {"fetch", "delay"})
    /\ [][\A j \in 1..MaxJobs :
            /\ (j \in DOMAIN loops /\ j \notin DOMAIN loops') => j \notin DOMAIN pendingJobs'
            /\ (j \in pollingRef /\ j \notin pollingRef') => j \notin DOMAIN pendingJobs'
            /\ (j \notin DOMAIN pendingJobs /\ j \in DOMAIN pendingJobs')
               => (j \notin DOMAIN loops /\ j \in DOMAIN loops')]_vars

\* a second job is tracked and polled after the first job's loop has ended
\* and its entry is gone
C7_Witness ==
    \E j, k \in 1..MaxJobs :
        /\ j <= nextJob /\ j \notin DOMAIN loops /\ j \notin DOMAIN pendingJobs
        /\ k \in DOMAIN pendingJobs /\ k \in DOMAIN loops
        /\ pendingJobs[k].pollCount > 0

\* ------------------------------------------------------------------------
\* Claims about SpecPoll
\* ------------------------------------------------------------------------
PollElapsed == now - poll.startTime

TerminalStatuses == {"finished", "failed", "not_found"}

\* how a call may end on a fetched status or on the deadline
EndsByStatusOrTimeout ==
    /\ poll.pc = "returned" =>
          (poll.status.status = "finished" /\ poll.err = NoError)
    /\ poll.pc = "raised" /\ poll.err.code \notin {"NETWORK_ERROR", "SERVER_ERROR"} =>
          \/ /\ poll.status.status = "failed"
             /\ poll.err.code = "JOB_FAILED"
             /\ poll.err.message =
                   (IF poll.status.error # "" THEN poll.status.error
                    ELSE "Job processing failed")
          \/ /\ poll.status.status = "not_found"
             /\ poll.err.code = "JOB_NOT_FOUND"
          \/ /\ poll.err.code = "POLL_TIMEOUT"
             /\ poll.status.status \notin TerminalStatuses
             /\ PollElapsed >= poll.options.timeout
    /\ poll.pc = "delay" => poll.status.status \in NonTerminalStatuses
    /\ poll.pc \in {"fetch", "delay"} => poll.status.status \notin TerminalStatuses

\* C8 as stated: finished returns the payload, failed raises JOB_FAILED with
\* the backend diagnostic, not_found raises JOB_NOT_FOUND, any other status
\* leads to another poll, and nothing is returned or raised except on a
\* terminal status or at the timeout.
C8_OnlyStatusOrTimeoutEnds ==
    /\ EndsByStatusOrTimeout
    /\ poll.pc = "raised" => poll.err.code \notin {"NETWORK_ERROR", "SERVER_ERROR"}

\* C8 amended: the same mapping, and the only other way the call ends is
\* that a status request itself fails, whose error (from handleApiError) is
\* raised unchanged.
C8_StatusOutcomes ==
    /\ EndsByStatusOrTimeout
    /\ poll.pc = "raised" /\ poll.err.code \in {"NETWORK_ERROR", "SERVER_ERROR"} =>
          \E k \in ApiFailureKinds : poll.err = handleApiError(k)

\* the job failed with a diagnostic after an earlier status led to another poll
C8_Witness ==
    /\ poll.pc = "raised" /\ poll.attempt >= 2
    /\ poll.err.code = "JOB_FAILED" /\ poll.err.message = "boom"

\* the k-th interval of the schedule "initialInterval, times 1.5 after each
\* poll, capped at maxInterval", as <<numerator, denominator>>
RECURSIVE KthInterval(_, _, _, _)
KthInterval(num, den, maxInterval, k) ==
    IF k <= 1 THEN <<num, den>>
    ELSE IF 3 * num > maxInterval * 2 * den THEN <<maxInterval, 1>>
    ELSE KthInterval(3 * num, 2 * den, maxInterval, k - 1)

DefaultDelays == <<500, 750, 1125, 1687, 2531, 3000, 3000>>

\* C9: the delay after the k-th poll is initialInterval * 1.5^(k-1) capped at
\* maxInterval (in whole ms); with the defaults the delays are 500, 750,
\* 1125, 1687, 2531, 3000, 3000, ...; no delay exceeds maxInterval.
C9_DelaySchedule ==
    poll.pc = "delay" =>
        LET kth == KthInterval(poll.options.initialInterval, 1,
                               poll.options.maxInterval, poll.attempt)
        IN  /\ poll.delay = kth[1] \div kth[2]
            /\ poll.options = DefaultPollOptions =>
                  poll.delay = DefaultDelays[IF poll.attempt < 7 THEN poll.attempt ELSE 7]
            /\ poll.delay <= poll.options.maxInterval

\* C10: no status request starts once the elapsed time has reached the
\* timeout; a call that ends without a terminal status and without a failed
\* request raises POLL_TIMEOUT, and only at or after the timeout; with
\* timeout 0 it raises POLL_TIMEOUT without any request; and every call ends.
C10_PollTerminates ==
    /\ [](poll.pc = "fetch" => PollElapsed < poll.options.timeout)
    /\ []((poll.pc = "raised" /\ poll.err.code = "POLL_TIMEOUT")
             => PollElapsed >= poll.options.timeout)
    /\ []((PollDone(poll) /\ poll.status.status \notin TerminalStatuses
              /\ poll.err.code \notin {"NETWORK_ERROR", "SERVER_ERROR"})
             => (poll.pc = "raised" /\ poll.err = PollTimeoutError))
    /\ []((poll.pc # "idle" /\ poll.options.timeout = 0)
             => (poll.pc = "raised" /\ poll.err = PollTimeoutError /\ poll.attempt = 0))
    /\ <>PollDone(poll)

\* the deadline passed after several non-terminal statuses
C10_Witness ==
    /\ poll.pc = "raised" /\ poll.err = PollTimeoutError
    /\ poll.attempt >= 3 /\ poll.status.status \in NonTerminalStatuses

\* ========================================================================
\* SpecMessages: the chat store's conversation, message and pending-job
\* mutations on a store that already holds conversations
\* ========================================================================
MaxMessages == 2     \* addMessage calls explored
MaxMsgClock == 1     \* the message specification stops the clock here (ms)

\* the conversations the store holds when the specification starts
InitialConversations ==
    <<NewConversation(2, 0, "A"), NewConversation(1, 0, "A")>>

\* ids a caller may pass: of the initial conversations, of the messages
\* added, and one id that is never handed out
ConversationIds == 1..Len(InitialConversations)
MessageIds      == (Len(InitialConversations) + 1)..(Len(InitialConversations) + MaxMessages)
UnknownId       == Len(InitialConversations) + MaxMessages + 1

\* the (role, content) pairs passed to addMessage, and the updates passed to
\* updateMessage
MessageInputs  ==
    {[role |-> "user", content |-> "a"], [role |-> "user", content |-> "b"],
     [role |-> "assistant", content |-> "a"]}
MessageUpdates == {[status |-> "error"]}

\* getMessages(conversationId)
getMessages(convs, conversationId) ==
    LET ci == ConvIndex(convs, conversationId)
    IN  IF ci = 0 THEN <<>> ELSE convs[ci].messages

\* deleteMessage: the set() callback
DeleteMessageFrom(convs, conversationId, messageId, t) ==
    LET ci == ConvIndex(convs, conversationId)
    IN  IF ci = 0 THEN convs
        ELSE LET index == MsgIndex(convs[ci].messages, messageId)
             IN  IF index = 0 THEN convs
                 ELSE [convs EXCEPT ![ci] =
                         [@ EXCEPT !.messages  = RemoveAt(@, index),
                                   !.updatedAt = t]]

\* updateConversationTitle: the set() callback
UpdateTitleIn(convs, id, title, t) ==
    LET ci == ConvIndex(convs, id)
    IN  IF ci = 0 THEN convs
        ELSE [convs EXCEPT ![ci] = [@ EXCEPT !.title = title, !.updatedAt = t]]

addMessage(conversationId, role, content) ==
    /\ authPc = "idle"
    /\ nextId < Len(InitialConversations) + MaxMessages
    /\ nextId' = nextId + 1
    /\ conversations' =
          AddMessageTo(conversations, conversationId,
                       NewMessage(nextId + 1, role, content, NoMetadata, now), now)
    /\ UNCHANGED <<now, authVars, activeConversationId, pendingJobs, isSending, error,
                   settings, hookVars, poll, upload>>
    /\ ChatPersist

updateMessage(conversationId, messageId, updates) ==
    /\ authPc = "idle"
    /\ conversations' = UpdateMessageIn(conversations, conversationId, messageId, updates, now)
    /\ UNCHANGED <<now, authVars, activeConversationId, pendingJobs, isSending, error,
                   settings, nextId, hookVars, poll, upload>>
    /\ ChatPersist

\* updateMessageStatus: get().updateMessage(conversationId, messageId, { status })
updateMessageStatus(conversationId, messageId, status) ==
    updateMessage(conversationId, messageId, [status |-> status])

deleteMessage(conversationId, messageId) ==
    /\ authPc = "idle"
    /\ conversations' = DeleteMessageFrom(conversations, conversationId, messageId, now)
    /\ UNCHANGED <<now, authVars, activeConversationId, pendingJobs, isSending, error,
                   settings, nextId, hookVars, poll, upload>>
    /\ ChatPersist

updateConversationTitle(id, title) ==
    /\ authPc = "idle"
    /\ conversations' = UpdateTitleIn(conversations, id, title, now)
    /\ UNCHANGED <<now, authVars, activeConversationId, pendingJobs, isSending, error,
                   settings, nextId, hookVars, poll, upload>>
    /\ ChatPersist

\* the PendingJob a caller tracks for a job id
TrackedJob(jobId) ==
    [jobId |-> jobId, messageId |-> 0, conversationId |-> 1, query |-> "a",
     startedAt |-> 0, pollCount |-> 0]

addPendingJob(job) ==
    /\ authPc = "idle"
    /\ pendingJobs' = AddPendingJobTo(pendingJobs, job)
    /\ UNCHANGED <<now, authVars, conversations, activeConversationId, isSending, error,
                   settings, nextId, hookVars, poll, upload>>
    /\ ChatPersist

removePendingJob(jobId) ==
    /\ authPc = "idle"
    /\ pendingJobs' = RemovePendingJobFrom(pendingJobs, jobId)
    /\ UNCHANGED <<now, authVars, conversations, activeConversationId, isSending, error,
                   settings, nextId, hookVars, poll, upload>>
    /\ ChatPersist

updatePendingJob(jobId, updates) ==
    /\ authPc = "idle"
    /\ pendingJobs' = UpdatePendingJobIn(pendingJobs, jobId, updates)
    /\ UNCHANGED <<now, authVars, conversations, activeConversationId, isSending, error,
                   settings, nextId, hookVars, poll, upload>>
    /\ ChatPersist

MsgTick ==
    /\ authPc = "idle"
    /\ now < MaxMsgClock
    /\ now' = now + 1
    /\ UNCHANGED <<authVars, chatVars, hookVars, poll, upload>>

InitMessages ==
    /\ now = 0
    /\ isAuthenticated = TRUE /\ user = "A" /\ token = TokenOf("A")
    /\ expiresAt = MsPerSecond
    /\ authPc = "idle" /\ authArg = NoAuthArg
    /\ authStorage = AuthRecord(TRUE, "A", TokenOf("A"), MsPerSecond)
    /\ conversations = InitialConversations
    /\ activeConversationId = InitialConversations[1].id
    /\ pendingJobs = <<>> /\ isSending = FALSE /\ error = ""
    /\ settings = DefaultSettings
    /\ chatStorage = partialize(conversations, activeConversationId, settings)
    /\ nextId = Len(InitialConversations)
    /\ InitHook /\ poll = NoPoll /\ upload = NoUpload

\* the conversation whose messages the specification mutates; the other one
\* is only deleted
TargetConversation == InitialConversations[1].id

NextMessages ==
    \/ MsgTick
    \/ \E i \in MessageInputs : addMessage(TargetConversation, i.role, i.content)
    \/ \E m \in MessageIds, u \in MessageUpdates : updateMessage(TargetConversation, m, u)
    \/ \E m \in MessageIds : updateMessageStatus(TargetConversation, m, "sent")
    \/ \E m \in MessageIds : deleteMessage(TargetConversation, m)
    \/ updateConversationTitle(TargetConversation, "Renamed")
    \/ \E c \in ConversationIds : deleteConversation(c)
    \/ Rehydrate

SpecMessages == InitMessages /\ [][NextMessages]_vars

\* ========================================================================
\* SpecFrame: the same mutations addressed to present and to absent ids
\* ========================================================================
FrameConversationIds == ConversationIds \cup {UnknownId}
FrameMessageIds      == MessageIds \cup {UnknownId}

NextFrame ==
    \/ \E c \in FrameConversationIds : addMessage(c, "user", "a")
    \/ \E c \in FrameConversationIds, m \in FrameMessageIds, u \in MessageUpdates :
          updateMessage(c, m, u)
    \/ \E c \in FrameConversationIds, m \in FrameMessageIds : deleteMessage(c, m)
    \/ \E c \in FrameConversationIds : deleteConversation(c)
    \/ \E c \in FrameConversationIds \cup {0} : setActiveConversation(c)
    \/ addPendingJob(TrackedJob(1))
    \/ \E j \in 1..2 : removePendingJob(j)
    \/ \E j \in 1..2 : updatePendingJob(j, [pollCount |-> 1])

SpecFrame == InitMessages /\ [][NextFrame]_vars

\* ------------------------------------------------------------------------
\* Claims about SpecMessages
\* ------------------------------------------------------------------------

\* C11: getMessages returns the surviving messages of every conversation in
\* the order of their addMessage calls (generateId hands out increasing ids,
\* so in increasing id), whatever their roles.
C11_MessagesInCallOrder ==
    \A c \in ConvIds(conversations) :
        LET messages == getMessages(conversations, c)
        IN  \A i, j \in 1..Len(messages) : i < j => messages[i].id < messages[j].id

\* an assistant message added before a user message, one of them updated
\* since
C11_Witness ==
    LET messages == getMessages(conversations, TargetConversation)
    IN  /\ Len(messages) = 2
        /\ messages[1].role = "assistant" /\ messages[2].role = "user"
        /\ messages[1].status = "error"

\* the titles addMessage can derive
DerivedTitles == {extractConversationTitle(i.content) : i \in MessageInputs}

\* C12: once the title of a conversation has been derived from a user
\* message, no later step derives it again from another message.
C12_TitleDerivedOnce ==
    [][\A c \in ConversationIds :
          LET before == ConvIndex(conversations, c)
              after  == ConvIndex(conversations', c)
          IN  (/\ before # 0 /\ after # 0
               /\ conversations[before].title \in DerivedTitles
               /\ conversations'[after].title \in DerivedTitles)
              => conversations'[after].title = conversations[before].title]_vars

\* C15: updatedAt of a conversation is never below createdAt, never
\* decreases, and equals the current time after every step that changed the
\* conversation's title or messages.
C15_UpdatedAtMonotone ==
    /\ [](\A i \in 1..Len(conversations) :
             conversations[i].updatedAt >= conversations[i].createdAt)
    /\ [][\A c \in ConversationIds :
            LET before == ConvIndex(conversations, c)
                after  == ConvIndex(conversations', c)
            IN  (before # 0 /\ after # 0)
                => /\ conversations'[after].updatedAt >= conversations[before].updatedAt
                   /\ (\/ conversations'[after].title # conversations[before].title
                       \/ conversations'[after].messages # conversations[before].messages)
                      => conversations'[after].updatedAt = now']_vars

\* a conversation mutated after the clock advanced, holding a message from
\* before
C15_Witness ==
    \E i \in 1..Len(conversations) :
        /\ conversations[i].updatedAt > conversations[i].createdAt
        /\ Len(conversations[i].messages) > 0
        /\ conversations[i].messages[1].timestamp < conversations[i].updatedAt
        /\ conversations[i].messages[1].status = "error"

\* ------------------------------------------------------------------------
\* Claims about SpecFrame
\* ------------------------------------------------------------------------

\* the store state a caller can observe, and its persisted record
StoreState ==
    <<conversations, activeConversationId, pendingJobs, isSending, error, settings,
      chatStorage>>

\* C13: a mutation addressed to an absent conversation, message or job id
\* leaves the whole store state unchanged.
C13_AbsentIdIsNoOp ==
    [][/\ \A c \in FrameConversationIds :
            /\ (ConvIndex(conversations, c) = 0 /\ deleteConversation(c))
               => UNCHANGED StoreState
            /\ (ConvIndex(conversations, c) = 0 /\ addMessage(c, "user", "a"))
               => UNCHANGED StoreState
            /\ \A m \in FrameMessageIds :
                  (/\ FindMessage(conversations, c, m) = <<>>
                   /\ \/ deleteMessage(c, m)
                      \/ \E u \in MessageUpdates : updateMessage(c, m, u))
                  => UNCHANGED StoreState
       /\ \A j \in 1..2 :
            (/\ j \notin DOMAIN pendingJobs
             /\ removePendingJob(j) \/ updatePendingJob(j, [pollCount |-> 1]))
            => UNCHANGED StoreState]_vars

\* C14: deleteConversation(id) of the active conversation removes it and
\* activates the conversation now first in the list, or none when the list
\* is empty; of another conversation, it leaves activeConversationId alone.
C14_DeleteActivatesFirst ==
    [][\A id \in FrameConversationIds :
          deleteConversation(id)
          => IF activeConversationId = id
             THEN /\ id \notin ConvIds(conversations')
                  /\ activeConversationId' =
                        IF Len(conversations') = 0 THEN 0 ELSE conversations'[1].id
             ELSE activeConversationId' = activeConversationId]_vars

\* the active conversation was deleted and the remaining one took its place
C14_Witness ==
    /\ Len(conversations) = 1
    /\ activeConversationId = conversations[1].id
    /\ activeConversationId # InitialConversations[1].id

\* ========================================================================
\* documentApi.ingest / ingestSmart / ingestRange (lib/api) and the
\* FileUpload component's uploadFile
\* ========================================================================
MaxFileSize == 4     \* largest small file.size explored (bytes)

MiB == 1024 * 1024

\* an option the caller left out
Absent == -1

\* options.x ?? fallback
Coalesce(value, fallback) == IF value = Absent THEN fallback ELSE value

Minimum(a, b) == IF a <= b THEN a ELSE b
Maximum(a, b) == IF a >= b THEN a ELSE b

DefaultChunkSize   == 5 * MiB
DefaultConcurrency == 4

\* the options FileUpload's uploadFile passes to documentApi.ingest
UploadFileOptions ==
    [useChunking |-> TRUE, chunkSize |-> 5 * MiB, thresholdBytes |-> 4 * MiB,
     concurrency |-> 4]

\* the (file.size, options) pairs explored: small files with small chunks,
\* and files of 1, 5 and 12 MiB with the defaults
IngestInputs ==
    {[size |-> n,
      options |-> [useChunking |-> c, chunkSize |-> k, thresholdBytes |-> t,
                   concurrency |-> p]] :
        n \in 0..MaxFileSize, c \in BOOLEAN, k \in {1, 2},
        t \in {Absent, 0, 3}, p \in {0, 2}}
    \cup {[size |-> n,
           options |-> [useChunking |-> FALSE, chunkSize |-> Absent,
                        thresholdBytes |-> Absent, concurrency |-> Absent]] :
            n \in {1 * MiB, 5 * MiB, 12 * MiB}}

IngestStatuses == {"success", "error"}

\* ingestSmart / ingestRange: the effective chunk size, threshold, concurrency
ChunkSizeOf(options)   == Coalesce(options.chunkSize, DefaultChunkSize)
ThresholdOf(options)   == Coalesce(options.thresholdBytes, ChunkSizeOf(options))
ConcurrencyOfUnclamped(options) ==
    Maximum(1, Coalesce(options.concurrency, DefaultConcurrency))

ConcurrencyOf(options) ==
    Maximum(1, Minimum(Coalesce(options.concurrency, DefaultConcurrency), 8))


\* ingestSmart: if (options.useChunking || file.size > threshold)
UsesRange(size, options) == options.useChunking \/ size > ThresholdOf(options)

ChunkEndExclusive(start, chunkSize, total) == Minimum(start + chunkSize, total)

\* ingestRange: const end = Math.min(start + chunkSize, total) - 1
ChunkEnd(start, chunkSize, total) == Minimum(start + chunkSize, total) - 1

\* ingestRange: for (let start = 0; start < total; start += chunkSize)
RECURSIVE ChunksFrom(_, _, _)
ChunksFrom(start, chunkSize, total) ==
    IF start < total
    THEN <<[start |-> start, end |-> ChunkEnd(start, chunkSize, total)]>>
         \o ChunksFrom(start + chunkSize, chunkSize, total)
    ELSE <<>>

\* the request of one chunk: Content-Range "bytes start-end/total"
RangeRequest(chunk, total) == [start |-> chunk.start, end |-> chunk.end, total |-> total]

\* the response data of request k (0: the single multipart request)
IngestResponse(status, k) == [status |-> status, request |-> k]

\* what a failed request rejects with
RequestError(kind, k) ==
    [class |-> "AxiosError", code |-> kind, message |-> "Request failed", request |-> k]

\* new Error("Upload did not complete. No final response received.")
UploadIncompleteError ==
    [class |-> "Error", code |-> "",
     message |-> "Upload did not complete. No final response received.", request |-> 0]

NoUploadError == [class |-> "", code |-> "", message |-> "", request |-> 0]

IsFinalAnyStatus(chunk, total, response) == chunk.end + 1 = total

\* ingestRange: chunk.end + 1 === total && resp.data?.status === "success"
IsFinal(chunk, total, response) ==
    chunk.end + 1 = total /\ response.status = "success"

IdleUpload ==
    [pc |-> "idle", mode |-> "", size |-> 0, options |-> UploadFileOptions,
     total |-> 0, chunkSize |-> 0, concurrency |-> 0,
     chunks |-> <<>>, batchStart |-> 0, requests |-> <<>>, outstanding |-> {},
     responses |-> <<>>, uploaded |-> 0, progress |-> <<>>, finalResponse |-> <<>>,
     result |-> <<>>, err |-> NoUploadError]

\* ingestRange: the loop over batches, entered with i = batchStart: the
\* batch's requests are posted, or the loop is over and the call settles
IssueBatch(u, i) ==
    IF i < Len(u.chunks)
    THEN LET last == Minimum(i + u.concurrency, Len(u.chunks))
         IN  [u EXCEPT !.batchStart  = i,
                       !.requests    = @ \o [k \in 1..(last - i) |->
                                               RangeRequest(u.chunks[i + k], u.total)],
                       !.outstanding = (i + 1)..last]
    ELSE IF u.finalResponse = <<>>
    THEN [u EXCEPT !.pc = "raised", !.err = UploadIncompleteError]
    ELSE [u EXCEPT !.pc = "returned", !.result = u.finalResponse]

\* ingestRange, up to the first await
RangeEntered(size, chunkSize, concurrency) ==
    IssueBatch([IdleUpload EXCEPT !.pc = "ranged", !.mode = "ranged", !.total = size,
                                  !.chunkSize = chunkSize, !.concurrency = concurrency,
                                  !.chunks = ChunksFrom(0, chunkSize, size)],
               0)

\* ingestSmart, up to the first await
SmartEntered(size, options) ==
    IF UsesRange(size, options)
    THEN RangeEntered(size, ChunkSizeOf(options), ConcurrencyOf(options))
    ELSE [IdleUpload EXCEPT !.pc = "single", !.mode = "single", !.total = size,
                            !.requests = <<[start |-> 0, end |-> size - 1, total |-> size]>>,
                            !.outstanding = {0}]

ChunkProgressByOffset(uploadedBytes, totalBytes, chunk) ==
    [uploadedBytes |-> chunk.end + 1, totalBytes |-> totalBytes,
     start |-> chunk.start, end |-> chunk.end]

\* the arguments of options.onChunkProgress(uploaded, total, {start, end})
ChunkProgress(uploadedBytes, totalBytes, chunk) ==
    [uploadedBytes |-> uploadedBytes, totalBytes |-> totalBytes,
     start |-> chunk.start, end |-> chunk.end]

\* one request of the batch is answered: the rest of its async callback, and
\* the continuation of the loop when it was the last of the batch
OnRangeResponse(u, k, status) ==
    LET response == IngestResponse(status, k)
        u1 == [u EXCEPT !.outstanding = @ \ {k},
                        !.responses = [j \in DOMAIN @ \cup {k} |->
                                          IF j = k THEN response ELSE @[j]],
                        !.uploaded = @ + (u.chunks[k].end - u.chunks[k].start + 1),
                        !.progress = <<ChunkProgress(
                                          u.uploaded + (u.chunks[k].end - u.chunks[k].start + 1),
                                          u.total, u.chunks[k])>>,
                        !.finalResponse = IF IsFinal(u.chunks[k], u.total, response)
                                          THEN <<response>> ELSE @]
    IN  IF u.pc = "ranged" /\ u1.outstanding = {}
        THEN IssueBatch(u1, u.batchStart + u.concurrency)
        ELSE u1

OnRangeFailureIgnored(u, k, kind) ==
    LET u1 == [u EXCEPT !.outstanding = @ \ {k}]
    IN  IF u.pc = "ranged" /\ u1.outstanding = {}
        THEN IssueBatch(u1, u.batchStart + u.concurrency)
        ELSE u1

\* one request of the batch fails: Promise.all rejects and the await throws
OnRangeFailure(u, k, kind) ==
    IF u.pc = "ranged"
    THEN [u EXCEPT !.outstanding = @ \ {k}, !.pc = "raised", !.err = RequestError(kind, k)]
    ELSE [u EXCEPT !.outstanding = @ \ {k}]

\* documentApi.ingest(file, options)
IngestCall(size, options) ==
    /\ upload.pc = "idle"
    /\ upload' = [SmartEntered(size, options) EXCEPT !.size = size, !.options = options]
    /\ UNCHANGED <<now, authVars, chatVars, hookVars, poll>>

\* FileUpload: uploadFile(trackedFile)
uploadFile(size) == IngestCall(size, UploadFileOptions)

\* the single multipart request is answered: return response.data
SingleReturns(status) ==
    /\ upload.pc = "single"
    /\ upload' = [upload EXCEPT !.pc = "returned", !.outstanding = {},
                                !.result = <<IngestResponse(status, 0)>>]
    /\ UNCHANGED <<now, authVars, chatVars, hookVars, poll>>

SingleFails(kind) ==
    /\ upload.pc = "single"
    /\ authPc = "idle"
    /\ upload' = [upload EXCEPT !.pc = "raised", !.outstanding = {},
                                !.err = RequestError(kind, 0)]
    /\ OnResponseErrorAuth(kind)
    /\ chatStorage' = StorageAfterResponseError(kind, chatStorage)
    /\ UNCHANGED <<now, conversations, activeConversationId, pendingJobs, isSending, error,
                   settings, nextId, hookVars, poll>>

RangeReturns(k, status) ==
    /\ upload.pc \in {"ranged", "raised"}
    /\ upload.mode = "ranged"
    /\ k \in upload.outstanding
    /\ upload' = OnRangeResponse(upload, k, status)
    /\ UNCHANGED <<now, authVars, chatVars, hookVars, poll>>

RangeFails(k, kind) ==
    /\ upload.pc \in {"ranged", "raised"}
    /\ upload.mode = "ranged"
    /\ authPc = "idle"
    /\ k \in upload.outstanding
    /\ upload' = OnRangeFailure(upload, k, kind)
    /\ OnResponseErrorAuth(kind)
    /\ chatStorage' = StorageAfterResponseError(kind, chatStorage)
    /\ UNCHANGED <<now, conversations, activeConversationId, pendingJobs, isSending, error,
                   settings, nextId, hookVars, poll>>

\* the sizes of the files dropped on FileUpload
UploadFileSizes == {0, 1 * MiB, 12 * MiB}

\* indexes of the range requests of the explored inputs
RequestIndexes == 1..Maximum(MaxFileSize, 3)

InitUpload ==
    /\ now = 0
    /\ isAuthenticated = TRUE /\ user = "A" /\ token = TokenOf("A")
    /\ expiresAt = MsPerSecond
    /\ authPc = "idle" /\ authArg = NoAuthArg
    /\ authStorage = AuthRecord(TRUE, "A", TokenOf("A"), MsPerSecond)
    /\ InitChat /\ InitHook /\ poll = NoPoll /\ upload = IdleUpload

NextUpload ==
    \/ \E i \in IngestInputs : IngestCall(i.size, i.options)
    \/ \E n \in UploadFileSizes : uploadFile(n)
    \/ \E st \in IngestStatuses : SingleReturns(st)
    \/ \E kind \in ApiFailureKinds : SingleFails(kind)
    \/ \E k \in RequestIndexes, st \in IngestStatuses : RangeReturns(k, st)
    \/ \E k \in RequestIndexes, kind \in ApiFailureKinds : RangeFails(k, kind)

SpecUpload == InitUpload /\ [][NextUpload]_vars

\* ------------------------------------------------------------------------
\* Claims about SpecUpload
\* ------------------------------------------------------------------------
Called == upload.pc \notin {"unused", "idle"}

\* ceil(a / b)
CeilDiv(a, b) == (a + b - 1) \div b

\* no request of the call has failed
NoRequestFailed == upload.err.class # "AxiosError"

\* C16: an upload uses the single multipart request exactly when file.size
\* is at most the threshold (thresholdBytes, by default the chunk size), and
\* the ranged upload otherwise.
C16_SingleIffWithinThreshold ==
    Called => (upload.mode = "single" <=> upload.size <= ThresholdOf(upload.options))

\* C17: the k-th range request of a ranged upload of size >= 1 carries the
\* bounds [(k-1)*chunkSize, min(k*chunkSize, size) - 1] and the total size,
\* and an upload in which no request failed has issued exactly
\* ceil(size / chunkSize) of them when it settles.
C17_RangePartition ==
    (Called /\ upload.mode = "ranged" /\ upload.total >= 1)
    => /\ \A k \in 1..Len(upload.requests) :
             upload.requests[k] =
                [start |-> (k - 1) * upload.chunkSize,
                 end   |-> Minimum(k * upload.chunkSize, upload.total) - 1,
                 total |-> upload.total]
       /\ Len(upload.requests) <= CeilDiv(upload.total, upload.chunkSize)
       /\ (upload.pc \in {"returned", "raised"} /\ NoRequestFailed)
          => Len(upload.requests) = CeilDiv(upload.total, upload.chunkSize)

\* 12 MiB in 5 MiB chunks: three requests, the last one shorter
C17_Witness ==
    /\ upload.pc = "returned" /\ upload.mode = "ranged"
    /\ upload.requests =
          <<[start |-> 0,        end |-> 5242879,  total |-> 12582912],
            [start |-> 5242880,  end |-> 10485759, total |-> 12582912],
            [start |-> 10485760, end |-> 12582911, total |-> 12582912]>>

\* the request whose end offset is size - 1 answered with status success
LastRangeSucceeded ==
    \E k \in DOMAIN upload.responses :
        /\ upload.requests[k].end = upload.total - 1
        /\ upload.responses[k].status = "success"

\* C18: a ranged upload returns only the response of the request ending at
\* size - 1, and only if that response has status success; when the call
\* settles without a failed request and without such a response (size 0
\* included), it raises the upload-incomplete error.
C18_OnlyLastRangeIsAuthoritative ==
    (Called /\ upload.mode = "ranged")
    => /\ upload.pc = "returned"
          => /\ LastRangeSucceeded
             /\ \E k \in DOMAIN upload.responses :
                   /\ upload.requests[k].end = upload.total - 1
                   /\ upload.result = <<upload.responses[k]>>
       /\ (upload.pc \in {"returned", "raised"} /\ NoRequestFailed /\ ~LastRangeSucceeded)
          => upload.pc = "raised" /\ upload.err = UploadIncompleteError
       /\ (upload.pc = "raised" /\ upload.err = UploadIncompleteError)
          => ~LastRangeSucceeded /\ upload.result = <<>>

\* every range but the last succeeded, the last reported an error, and the
\* upload was raised as incomplete
C18_Witness ==
    /\ upload.pc = "raised" /\ upload.err = UploadIncompleteError
    /\ Len(upload.requests) >= 2
    /\ DOMAIN upload.responses = 1..Len(upload.requests)
    /\ \A k \in 1..(Len(upload.requests) - 1) : upload.responses[k].status = "success"
    /\ upload.responses[Len(upload.requests)].status = "error"

\* C19: the step in which a range request of a running ranged upload fails
\* raises that request's error; from then on the call stays raised with that
\* error, has no result, and issues no further range request.
C19_FailureAbortsUpload ==
    /\ [][\A k \in RequestIndexes, kind \in ApiFailureKinds :
            (RangeFails(k, kind) /\ upload.pc = "ranged")
            => /\ upload'.pc = "raised"
               /\ upload'.err = RequestError(kind, k)
               /\ upload'.requests = upload.requests]_vars
    /\ [][(Called /\ upload.mode = "ranged" /\ ~NoRequestFailed)
          => /\ upload'.pc = "raised"
             /\ upload'.err = upload.err
             /\ upload'.result = <<>>
             /\ upload'.requests = upload.requests]_vars

\* a request of the first batch failed after the other requests of the batch
\* were answered, and the chunks of the later batch were never requested
C19_Witness ==
    /\ upload.pc = "raised" /\ ~NoRequestFailed
    /\ upload.outstanding = {}
    /\ upload.responses # <<>>
    /\ Len(upload.requests) < Len(upload.chunks)

\* ========================================================================
\* SpecSession: the auth store's session, its expiry and the auth header
\* ========================================================================
MaxSessionTicks == 3   \* the session specification stops the clock after this many steps

\* the session clock advances by half a second
SessionStep == MsPerSecond \div 2

\* expires_in (seconds) of the tokens explored: at and just above the buffer
SessionLifetimes == {30, 31}

SessionTokenResponses ==
    {[user_id |-> u, access_token |-> TokenOf(u), expires_in |-> s] :
        u \in UserIds, s \in SessionLifetimes}

\* isTokenExpired: "Add 30 second buffer before actual expiry"
ExpiryBufferMs == 30000

isTokenExpiredStrict(tok, exp, t) ==
    IF tok = "" \/ exp = 0 THEN TRUE ELSE t > exp - ExpiryBufferMs

\* isTokenExpired()
isTokenExpired(tok, exp, t) ==
    IF tok = "" \/ exp = 0 THEN TRUE ELSE t >= exp - ExpiryBufferMs

\* getAuthHeader(): the header map as a sequence of length 0 (null) or 1
getAuthHeader(isAuth, tok, exp, t) ==
    IF ~isAuth \/ tok = "" \/ isTokenExpired(tok, exp, t)
    THEN <<>>
    ELSE <<[Authorization |-> "Bearer " \o tok]>>

setTokenKeepsExpiry(tok, expiresIn) ==
    /\ authPc = "idle"
    /\ token' = tok
    /\ isAuthenticated' = TRUE
    /\ UNCHANGED <<now, user, expiresAt, authPc, authArg, chatVars, hookVars, poll, upload>>
    /\ AuthPersist

setToken(tok, expiresIn) ==
    /\ authPc = "idle"
    /\ token' = tok
    /\ expiresAt' = now + expiresIn * MsPerSecond
    /\ isAuthenticated' = TRUE
    /\ UNCHANGED <<now, user, authPc, authArg, chatVars, hookVars, poll, upload>>
    /\ AuthPersist

SessionTick ==
    /\ authPc = "idle"
    /\ now + SessionStep <= MaxSessionTicks * SessionStep
    /\ now' = now + SessionStep
    /\ UNCHANGED <<authVars, chatVars, hookVars, poll, upload>>

InitSession ==
    now = 0 /\ InitAuth /\ InitChat /\ InitHook /\ poll = NoPoll /\ upload = NoUpload

NextSession ==
    \/ SessionTick
    \/ \E r \in SessionTokenResponses : LoginPurge(r)
    \/ LoginSet
    \/ LogoutPurge
    \/ LogoutSet
    \/ \E u \in UserIds, s \in SessionLifetimes : setToken(TokenOf(u), s)
    \/ \E u \in UserIds : setUser(u)
    \/ Rehydrate

SpecSession == InitSession /\ [][NextSession]_vars

\* ------------------------------------------------------------------------
\* Claims about SpecSession
\* ------------------------------------------------------------------------

\* C20: isTokenExpired() is true exactly when there is no token or
\* now >= expiresAt - 30000, and getAuthHeader() is the bearer header when
\* isAuthenticated holds and isTokenExpired() is false, and null otherwise.
C20_ExpiryAndHeader ==
    /\ isTokenExpired(token, expiresAt, now) <=> (token = "" \/ now >= expiresAt - 30000)
    /\ getAuthHeader(isAuthenticated, token, expiresAt, now) =
          IF isAuthenticated /\ ~(token = "" \/ now >= expiresAt - 30000)
          THEN <<[Authorization |-> "Bearer " \o token]>>
          ELSE <<>>

\* a signed-in session exactly at the boundary now = expiresAt - 30000, after
\* having been inside its lifetime
C20_Witness ==
    /\ isAuthenticated /\ token # ""
    /\ now > 0 /\ now = expiresAt - 30000
    /\ getAuthHeader(isAuthenticated, token, expiresAt, now) = <<>>

\* ========================================================================
\* SpecAuth: the auth store under login, logout, setUser, setToken,
\* initialize and page reloads
\* ========================================================================
ClearedAuth == [isAuthenticated |-> FALSE, user |-> "", token |-> "", expiresAt |-> 0]

InitializeStateBuffered(state, t) ==
    IF state.token # "" /\ state.expiresAt # 0
    THEN IF t >= state.expiresAt - ExpiryBufferMs THEN ClearedAuth ELSE state
    ELSE state

\* initialize(): the auth fields after its set()
InitializeState(state, t) ==
    IF state.token # "" /\ state.expiresAt # 0
    THEN IF t >= state.expiresAt THEN ClearedAuth ELSE state
    ELSE state

\* the auth fields of the store
AuthState ==
    [isAuthenticated |-> isAuthenticated, user |-> user, token |-> token,
     expiresAt |-> expiresAt]

initialize ==
    /\ authPc = "idle"
    /\ LET auth == InitializeState(AuthState, now)
       IN  /\ isAuthenticated' = auth.isAuthenticated
           /\ user' = auth.user
           /\ token' = auth.token
           /\ expiresAt' = auth.expiresAt
    /\ UNCHANGED <<now, authPc, authArg, chatVars, hookVars, poll, upload>>
    /\ AuthPersist

NextAuth ==
    \/ Tick
    \/ \E r \in TokenResponses : LoginPurge(r)
    \/ LoginSet
    \/ LogoutPurge
    \/ LogoutSet
    \/ \E u \in UserIds : setUser(u)
    \/ \E u \in UserIds, s \in 1..MaxSeconds : setToken(TokenOf(u), s)
    \/ initialize
    \/ Rehydrate

SpecAuth == InitStore /\ [][NextAuth]_vars

\* ------------------------------------------------------------------------
\* Claims about SpecAuth
\* ------------------------------------------------------------------------

\* C21: in every state reachable through login, logout, setUser, setToken,
\* initialize and rehydration, token and expiresAt are both present or both
\* absent, in the store and in the persisted auth record.
C21_TokenAndExpiryTogether ==
    /\ (token = "") <=> (expiresAt = 0)
    /\ authStorage # <<>> =>
          ((authStorage[1].token = "") <=> (authStorage[1].expiresAt = 0))

\* a token set by setToken for a user who never logged in
C21_Witness == token # "" /\ expiresAt # 0 /\ user = "" /\ isAuthenticated

\* the outcome the claim states for a load from auth fields x at clock t
ClearedWhenExpired(x, t) ==
    IF x.token # "" /\ t >= x.expiresAt THEN ClearedAuth ELSE x

\* C22: from the same auth record and clock, initialize() and the
\* rehydration hook produce the same auth state: cleared exactly when a
\* token is present and now >= expiresAt, unchanged otherwise.
C22_InitializeAgreesWithRehydrate ==
    /\ InitializeState(AuthState, now) = AuthOnRehydrate(AuthState, now)
    /\ InitializeState(AuthState, now) = ClearedWhenExpired(AuthState, now)
    /\ authStorage # <<>> =>
          /\ InitializeState(authStorage[1], now) = AuthOnRehydrate(authStorage[1], now)
          /\ InitializeState(authStorage[1], now) = ClearedWhenExpired(authStorage[1], now)

\* a reload found an expired token in the persisted record and cleared the
\* store, which initialize() then leaves as it is
C22_Witness ==
    /\ authStorage # <<>> /\ authStorage[1].token # ""
    /\ now >= authStorage[1].expiresAt
    /\ AuthState = ClearedAuth
    /\ InitializeState(AuthState, now) = AuthState

\* ------------------------------------------------------------------------
\* Claims about 401 responses (SpecChat)
\* ------------------------------------------------------------------------

\* this step handles a 401 response to a submit or to a status request
UnauthorizedResponseHandled ==
    \/ \E i \in 1..Len(submits) : SubmitFails(i, "unauthorized")
    \/ \E j \in DOMAIN loops : FetchFails(j, "unauthorized")

\* after logout(): the auth state is cleared
AuthCleared == ~isAuthenticated /\ user = "" /\ token = "" /\ expiresAt = 0

\* C23: every 401 response, whichever operation issued the request, triggers
\* logout: after it is handled the auth state is cleared and the persisted
\* chat record is removed.
C23_UnauthorizedLogsOut ==
    [][UnauthorizedResponseHandled => (AuthCleared' /\ chatStorage' = <<>>)]_vars

\* ========================================================================
\* SpecBatches: ranged uploads with more chunks than one batch holds
\* ========================================================================
MaxBatchChunks == 10   \* chunks of the file uploaded in the batch specification

\* a file of MaxBatchChunks one-byte chunks, with the concurrency left out,
\* below the clamp, inside it and above it
BatchInputs ==
    {[size |-> MaxBatchChunks,
      options |-> [useChunking |-> TRUE, chunkSize |-> 1, thresholdBytes |-> Absent,
                   concurrency |-> p]] : p \in {Absent, 0, 3, 9}}

NextBatches ==
    \/ \E i \in BatchInputs : IngestCall(i.size, i.options)
    \/ \E k \in 1..MaxBatchChunks : RangeReturns(k, "success")
    \/ \E k \in 1..MaxBatchChunks : RangeFails(k, "network")

SpecBatches == InitUpload /\ [][NextBatches]_vars

\* ------------------------------------------------------------------------
\* Claims about SpecBatches
\* ------------------------------------------------------------------------

\* clamp(concurrency, 1, 8), 4 when unspecified
ClampedConcurrency(options) ==
    LET c == IF options.concurrency = Absent THEN 4 ELSE options.concurrency
    IN  IF c < 1 THEN 1 ELSE IF c > 8 THEN 8 ELSE c

\* the batch the k-th range request belongs to, counted from 0
BatchOf(k, options) == (k - 1) \div ClampedConcurrency(options)

\* C24: at most clamp(concurrency, 1, 8) range requests of an upload are in
\* flight (4 when unspecified), and requests of a batch are issued only when
\* every request of the batches before it has completed: all requests in
\* flight belong to the batch issued last.
C24_BatchesBounded ==
    (Called /\ upload.mode = "ranged")
    => /\ Cardinality(upload.outstanding) <= ClampedConcurrency(upload.options)
       /\ \A k \in upload.outstanding :
             BatchOf(k, upload.options) = BatchOf(Len(upload.requests), upload.options)
       /\ Len(upload.requests) % ClampedConcurrency(upload.options) # 0
          => Len(upload.requests) = Len(upload.chunks)

\* a concurrency of 9 was clamped to 8: the second batch, of two requests,
\* is in flight after the eight requests of the first completed
C24_Witness ==
    /\ upload.pc = "ranged" /\ upload.options.concurrency = 9
    /\ Len(upload.requests) = MaxBatchChunks
    /\ upload.outstanding = {MaxBatchChunks - 1, MaxBatchChunks}
    /\ DOMAIN upload.responses = 1..8

\* ------------------------------------------------------------------------
\* Claims about the progress callback (SpecUpload)
\* ------------------------------------------------------------------------
RECURSIVE CompletedBytes(_, _)
\* the sum of the sizes of the ranges among the first n whose request was
\* answered
CompletedBytes(u, n) ==
    IF n = 0 THEN 0
    ELSE CompletedBytes(u, n - 1)
         + (IF n \in DOMAIN u.responses
            THEN u.requests[n].end - u.requests[n].start + 1 ELSE 0)

\* C25: whatever the completion order of the range requests, each progress
\* callback reports the sum of the sizes of the ranges completed so far, the
\* total, and the bounds of the range that just completed; the reported count
\* strictly increases, and is the file size when the upload returns.
C25_ProgressIsCumulative ==
    /\ [](  (Called /\ upload.mode = "ranged")
            => /\ (upload.progress = <<>>) <=> (DOMAIN upload.responses = {})
               /\ upload.progress # <<>>
                  => /\ upload.progress[1].uploadedBytes =
                           CompletedBytes(upload, Len(upload.requests))
                     /\ upload.progress[1].totalBytes = upload.size
               /\ upload.pc = "returned"
                  => upload.progress[1].uploadedBytes = upload.size)
    /\ [][(Called /\ upload.mode = "ranged" /\ upload'.progress # upload.progress)
          => /\ \E k \in upload.outstanding :
                   /\ DOMAIN upload'.responses = DOMAIN upload.responses \cup {k}
                   /\ upload'.progress[1].start = upload.requests[k].start
                   /\ upload'.progress[1].end = upload.requests[k].end
             /\ upload.progress # <<>>
                => upload'.progress[1].uploadedBytes > upload.progress[1].uploadedBytes]_vars

\* the first range of a batch completed after the last one: the upload
\* returned, and the last callback reported the first range and the file size
C25_Witness ==
    /\ upload.pc = "returned" /\ upload.mode = "ranged"
    /\ Len(upload.requests) >= 2
    /\ upload.progress # <<>>
    /\ upload.progress[1].start = 0
    /\ upload.progress[1].uploadedBytes = upload.size

\* C30: once ingestRange has rejected because a range request failed, no
\* further progress callback is invoked for that upload.
C30_NoProgressAfterRejection ==
    [][(Called /\ upload.mode = "ranged" /\ upload.pc = "raised" /\ ~NoRequestFailed)
       => upload'.progress = upload.progress]_vars

\* ========================================================================
\* SpecPolls: two jobs polled concurrently for two assistant messages
\* ========================================================================

\* sendMessage: the conversation list after the user message and the
\* placeholder were added, their ids being base + 1 and base + 2
ExchangeAdded(convs, conversationId, base, content, t) ==
    LET convs1 == AddMessageTo(convs, conversationId,
                     NewMessage(base + 1, "user", content, NoMetadata, t), t)
        convs2 == AddMessageTo(convs1, conversationId,
                     NewMessage(base + 2, "assistant", "", Metadata(0, -1, "sending"), t), t)
    IN  UpdateMessageIn(convs2, conversationId, base + 2,
                        [content |-> "...", status |-> "sending"], t)

\* the store after user A sent "hello" twice in a new conversation at time 0
\* and both submit requests were answered: conversation 1, messages 2..5,
\* jobs 1 and 2
PolledConversations ==
    ExchangeAdded(ExchangeAdded(<<NewConversation(1, 0, "A")>>, 1, 1, "hello", 0),
                  1, 3, "hello", 0)

PolledJobs ==
    [j \in {1, 2} |->
        [jobId |-> j, messageId |-> 2 * j + 1, conversationId |-> 1, query |-> "hello",
         startedAt |-> 0, pollCount |-> 0]]

PolledLoops ==
    [j \in {1, 2} |->
        [p |-> LoopHead(PollEntered(ChatPollOptions, 0), 0),
         conversationId |-> 1, messageId |-> 2 * j + 1]]

InitPolls ==
    /\ now = 0
    /\ isAuthenticated = TRUE /\ user = "A" /\ token = TokenOf("A")
    /\ expiresAt = MsPerSecond
    /\ authPc = "idle" /\ authArg = NoAuthArg
    /\ authStorage = AuthRecord(TRUE, "A", TokenOf("A"), MsPerSecond)
    /\ conversations = PolledConversations
    /\ activeConversationId = 1
    /\ pendingJobs = PolledJobs
    /\ isSending = FALSE /\ error = "" /\ settings = DefaultSettings
    /\ chatStorage = partialize(conversations, activeConversationId, settings)
    /\ nextId = 5
    /\ pollingRef = {1, 2} /\ abortControllersRef = {} /\ submits = <<>>
    /\ loops = PolledLoops /\ nextJob = 2
    /\ poll = NoPoll /\ upload = NoUpload

NextPolls ==
    \/ ChatTick
    \/ \E j \in DOMAIN PolledLoops, r \in ChatJobStatusResponses : FetchReturns(j, r)
    \/ \E j \in DOMAIN PolledLoops, k \in ChatFailureKinds : FetchFails(j, k)
    \/ \E j \in DOMAIN PolledLoops : TimerFires(j)

SpecPolls == InitPolls /\ [][NextPolls]_vars

\* ------------------------------------------------------------------------
\* Claims about SpecPolls
\* ------------------------------------------------------------------------

\* the poll loop of job j takes this step
LoopStepped(j) ==
    j \in DOMAIN loops /\ (j \notin DOMAIN loops' \/ loops'[j] # loops[j])

\* the message recorded for job j after its loop settles as p at time t in a
\* store that the other loop never touched
SettledAlone(j, p, t) ==
    FindMessage(
        PollForResponseSettles(PolledConversations, PolledJobs, "", j,
                               PolledLoops[j].conversationId, PolledLoops[j].messageId,
                               p, t).conversations,
        PolledLoops[j].conversationId, PolledLoops[j].messageId)

\* the message recorded for job j in the given conversation list
MessageOfJob(convs, j) ==
    FindMessage(convs, PolledLoops[j].conversationId, PolledLoops[j].messageId)

\* C26: with two jobs polled concurrently for different assistant messages,
\* a step changes a job's message or pending-job entry only if it is a step
\* of that job's own poll loop, and the message a loop leaves when it ends is
\* the one it would have left had the other job never been polled.
C26_PollLoopsIndependent ==
    /\ [][\A j \in DOMAIN PolledLoops :
            /\ MessageOfJob(conversations', j) # MessageOfJob(conversations, j)
               => LoopStepped(j)
            /\ (j \in DOMAIN pendingJobs
                /\ (j \notin DOMAIN pendingJobs' \/ pendingJobs'[j] # pendingJobs[j]))
               => LoopStepped(j)]_vars
    /\ [][\A j \in DOMAIN PolledLoops :
            /\ \A r \in ChatJobStatusResponses :
                  (FetchReturns(j, r) /\ j \notin DOMAIN loops')
                  => MessageOfJob(conversations', j)
                        = SettledAlone(j, OnStatus(loops[j].p, r, now), now)
            /\ \A k \in ChatFailureKinds :
                  FetchFails(j, k)
                  => MessageOfJob(conversations', j)
                        = SettledAlone(j, OnFetchError(loops[j].p, k), now)
            /\ (TimerFires(j) /\ j \notin DOMAIN loops')
               => MessageOfJob(conversations', j)
                     = SettledAlone(j, OnTimer(loops[j].p, now), now)]_vars

\* both loops have ended, one with an answer and the other with an error
C26_Witness ==
    /\ DOMAIN loops = {} /\ nextJob = 2
    /\ MessageOfJob(conversations, 1) # <<>> /\ MessageOfJob(conversations, 1)[1].status = "sent"
    /\ MessageOfJob(conversations, 2) # <<>> /\ MessageOfJob(conversations, 2)[1].status = "error"

\* ------------------------------------------------------------------------
\* Claims about identity switches (SpecStore)
\* ------------------------------------------------------------------------

\* the conversation list, or the persisted chat record, holds a conversation
\* owned by the given user
HoldsConversationOf(convs, storage, owner) ==
    \/ \E i \in 1..Len(convs) : convs[i].userId = owner
    \/ /\ storage # <<>>
       /\ \E i \in 1..Len(storage[1].conversations) :
             storage[1].conversations[i].userId = owner

\* C27: after a login that switches identity from one user to another,
\* neither the in-memory conversation list nor the persisted chat record
\* contains a conversation owned by the previous user; checked here for the
\* state the login's set() leaves.
C27_NoConversationOfPreviousUser ==
    [][(authPc = "login" /\ user # "" /\ authArg.user_id # user /\ user' = authArg.user_id)
       => ~HoldsConversationOf(conversations', chatStorage', user)]_vars

\* ------------------------------------------------------------------------
\* Claims about the active conversation (SpecStore)
\* ------------------------------------------------------------------------

\* C28: in every state reachable through createConversation,
\* deleteConversation, setActiveConversation, clearConversations and
\* rehydration, activeConversationId is null or the id of a conversation in
\* the list.
C28_ActiveIsListed ==
    activeConversationId = 0 \/ ConvIndex(conversations, activeConversationId) # 0

\* ------------------------------------------------------------------------
\* Claims about isSending (SpecChat)
\* ------------------------------------------------------------------------

\* C29: isSending is true in every state in which a submit request started
\* by sendMessage or retryMessage is in flight, also when several overlap,
\* and false when none is in flight.
C29_SendingWhileSubmitInFlight == isSending <=> Len(submits) > 0

====
